---- MODULE Spec2Model ----
(***************************************************************************)
(* The concurrent verification engine of the credential checker:           *)
(* checker.py (check_account, ResultCounter, save_result, get_next_proxy,  *)
(* the thread pool of main) and mt_client.py (MTClient).                   *)
(*                                                                         *)
(* Text is modelled as a sequence of tokens (a "phrase").  The tokens of   *)
(* every message are cut so that each marker the code searches for lies on *)
(* token boundaries; "key.lower() in text.lower()" is then the search for  *)
(* a contiguous run of lower-cased tokens.  A password is a sequence of    *)
(* one-character strings.                                                  *)
(***************************************************************************)
EXTENDS Integers, Sequences, FiniteSets, TLC

(***************************************************************************)
(* Bounds of the model.                                                    *)
(***************************************************************************)
\* longest credential list of a run
MaxCombos == 2
\* largest thread count of a run
MaxThreads == 2
\* retry iterations of check_account the environment may cause in a run of the
\* pool (Spec); SpecDeep follows one credential through its whole budget
MaxFaults == 1
\* times the result sink may raise in one run
MaxSinkFails == 1
\* times a client call may send its request again or call itself again, per run
MaxRepeats == 1
\* times the active endpoint may change in one run
MaxSwitches == 1
\* longest password of the runs that go through the format check alone
MaxPasswordLen == 6
\* calls of ResultCounter.increment in a run of the counter alone
MaxIncrements == 3
\* calls of _switch_server in a run of concurrent failovers
MaxCalls == 2
\* most lines of a credential file, and most characters of a line
MaxLines == 2
MaxLineLen == 3

(***************************************************************************)
(* Characters (str.isupper, islower, isdigit, isalpha, isalnum, upper).    *)
(* "j_caron" stands for U+01F0, a lower-case letter that has no upper-case *)
(* letter of its own: str.upper turns it into "J" followed by the          *)
(* combining caron U+030C ("caron"), a mark that is neither a letter nor a *)
(* digit.                                                                  *)
(***************************************************************************)
LowerChars == {"a", "b", "j_caron"}
UpperChars == {"A", "B", "J"}
DigitChars == {"1"}
SymbolChars == {"!"}
MarkChars == {"caron"}
Chars == LowerChars \cup UpperChars \cup DigitChars \cup SymbolChars \cup MarkChars

isupper(c) == c \in UpperChars
islower(c) == c \in LowerChars
isdigit(c) == c \in DigitChars
isalpha(c) == c \in LowerChars \cup UpperChars
isalnum(c) == isalpha(c) \/ isdigit(c)
\* str.upper of one character: a string
upper(c) ==
    CASE c = "a" -> <<"A">>
      [] c = "b" -> <<"B">>
      [] c = "j_caron" -> <<"J", "caron">>
      [] OTHER -> <<c>>

(***************************************************************************)
(* MTClient._validate_password_format                                      *)
(***************************************************************************)
MIN_PASSWORD_LEN == 6

ErrTooShort == <<"Password", "must", "be", "at", "least", "6", "characters", "long">>
ErrSymbols == <<"Password", "should", "not", "contain", "special", "symbols">>
ErrNoNumber == <<"Password", "must", "contain", "at", "least", "one", "number">>

\* a loop that capitalizes nothing
capitalize_nothing(password) == password

\* the loop "for i, char in enumerate(password): if char.isalpha(): ...; break"
capitalize_first_alpha(password) ==
    IF \E i \in 1..Len(password) : isalpha(password[i])
    THEN LET i == CHOOSE k \in 1..Len(password) :
                     /\ isalpha(password[k])
                     /\ \A j \in 1..(k - 1) : ~isalpha(password[j])
         \* password[:i] + char.upper() + password[i+1:]
         IN SubSeq(password, 1, i - 1) \o upper(password[i])
                \o SubSeq(password, i + 1, Len(password))
    ELSE password

\* the format check without its rule that a password holds a digit
validate_password_format_no_digit_rule(password) ==
    IF Len(password) < MIN_PASSWORD_LEN
    THEN [is_valid |-> FALSE, password |-> password, error |-> ErrTooShort]
    ELSE IF \E i \in 1..Len(password) : ~isalnum(password[i])
    THEN [is_valid |-> FALSE, password |-> password, error |-> ErrSymbols]
    ELSE [is_valid |-> TRUE, password |-> password, error |-> <<>>]

validate_password_format(password) ==
    LET has_upper == \E i \in 1..Len(password) : isupper(password[i])
        has_lower == \E i \in 1..Len(password) : islower(password[i])
        has_digit == \E i \in 1..Len(password) : isdigit(password[i])
        has_special == \E i \in 1..Len(password) : ~isalnum(password[i])
        capitalized == IF ~has_upper THEN capitalize_first_alpha(password)
                       ELSE password
    IN IF Len(password) < MIN_PASSWORD_LEN
       THEN [is_valid |-> FALSE, password |-> password, error |-> ErrTooShort]
       ELSE IF has_special
       THEN [is_valid |-> FALSE, password |-> password, error |-> ErrSymbols]
       ELSE IF ~(has_upper /\ has_lower /\ has_digit)
       THEN IF ~has_digit
            THEN [is_valid |-> FALSE, password |-> capitalized, error |-> ErrNoNumber]
            ELSE [is_valid |-> TRUE, password |-> capitalized, error |-> <<>>]
       ELSE [is_valid |-> TRUE, password |-> password, error |-> <<>>]

(***************************************************************************)
(* Phrases and case-insensitive substring search.                          *)
(***************************************************************************)
\* str.lower on one token
lower(w) ==
    CASE w = "Rate" -> "rate"
      [] w = "Invalid" -> "invalid"
      [] w = "API" -> "api"
      [] w = "Daily" -> "daily"
      [] w = "Limit" -> "limit"
      [] w = "Exceeded" -> "exceeded"
      [] w = "Server" -> "server"
      [] w = "Internal" -> "internal"
      [] w = "Failed" -> "failed"
      [] w = "Request" -> "request"
      [] w = "Error:" -> "error:"
      [] w = "Empty" -> "empty"
      [] w = "All" -> "all"
      [] w = "This" -> "this"
      [] w = "Read" -> "read"
      [] w = "Connection" -> "connection"
      [] w = "SSL" -> "ssl"
      [] w = "Unknown" -> "unknown"
      [] w = "Authorization" -> "authorization"
      [] w = "Account" -> "account"
      [] w = "Bad" -> "bad"
      [] w = "Gateway" -> "gateway"
      [] w = "Maintenance" -> "maintenance"
      [] OTHER -> w

RECURSIVE Lower(_)
Lower(s) == IF s = <<>> THEN <<>> ELSE <<lower(Head(s))>> \o Lower(Tail(s))

Contains(text, key) ==
    \E i \in 0..(Len(text) - Len(key)) : \A j \in 1..Len(key) : text[i + j] = key[j]

\* key.lower() in str(text).lower()
icontains(key, text) == Contains(Lower(text), Lower(key))

\* any(key.lower() in text.lower() for key in keys)
any_key_in(keys, text) ==
    LET t == Lower(text) IN \E key \in keys : Contains(t, Lower(key))

(***************************************************************************)
(* What one HTTP exchange can bring back: a raised requests exception or a *)
(* response body.  A body is its raw text and, when the text is JSON, the  *)
(* parsed object.                                                          *)
(***************************************************************************)
SuspendedMarker == <<"This", "service", "has", "been", "suspended">>

\* bodies that hold a quota or key marker together with a marker of a server
\* fault, or inside a payload that reports success
ContestedBodies ==
    {"rate_and_server_error", "key_and_server_error", "daily_and_server_error",
     "ok_with_rate", "ok_with_key"}

BodyNames ==
    {"ok", "bad_credentials", "rate_json", "rate_text", "key_text",
     "limit_json", "server_error_text", "invalid_parameters", "html",
     "empty", "suspended", "login_ok", "login_ok_banned", "login_bad_password",
     "login_rate", "login_no_status"} \cup ContestedBodies

Body(name) ==
    CASE name = "ok" ->
           [raw |-> <<"{", "success", "true", "}">>, parsed |-> TRUE,
            json |-> [success |-> TRUE]]
      [] name = "bad_credentials" ->
           [raw |-> <<"{", "success", "false", "message", "Invalid", "credentials", "}">>,
            parsed |-> TRUE,
            json |-> [success |-> FALSE, message |-> <<"Invalid", "credentials">>]]
      [] name = "rate_json" ->
           [raw |-> <<"{", "success", "false", "message", "Rate", "limit", "exceeded", "}">>,
            parsed |-> TRUE,
            json |-> [success |-> FALSE, message |-> <<"Rate", "limit", "exceeded">>]]
      [] name = "rate_text" ->
           [raw |-> <<"Rate", "limit", "exceeded">>, parsed |-> FALSE, json |-> <<>>]
      [] name = "key_text" ->
           [raw |-> <<"Invalid", "API", "key">>, parsed |-> FALSE, json |-> <<>>]
      [] name = "limit_json" ->
           [raw |-> <<"{", "error", "limit_exceeded", "api_key_info", "}">>,
            parsed |-> TRUE,
            json |-> [error |-> <<"limit_exceeded">>, api_key_info |-> TRUE]]
      [] name = "server_error_text" ->
           [raw |-> <<"Internal", "server", "error">>, parsed |-> FALSE, json |-> <<>>]
      [] name = "invalid_parameters" ->
           [raw |-> <<"{", "success", "false", "message", "Invalid", "parameters",
                      "status", "Invalid", "parameters", "}">>,
            parsed |-> TRUE,
            json |-> [success |-> FALSE, message |-> <<"Invalid", "parameters">>,
                      status |-> <<"Invalid", "parameters">>]]
      [] name = "html" ->
           [raw |-> <<"<html>", "Bad", "Gateway", "</html>">>, parsed |-> FALSE,
            json |-> <<>>]
      [] name = "empty" ->
           [raw |-> <<>>, parsed |-> FALSE, json |-> <<>>]
      [] name = "suspended" ->
           [raw |-> <<"<html>">> \o SuspendedMarker \o <<"</html>">>,
            parsed |-> FALSE, json |-> <<>>]
      [] name = "login_ok" ->
           [raw |-> <<"{", "status", "success", "is_banned", "false", "}">>,
            parsed |-> TRUE,
            json |-> [status |-> <<"success">>, is_banned |-> FALSE]]
      [] name = "login_ok_banned" ->
           [raw |-> <<"{", "status", "success", "is_banned", "true", "}">>,
            parsed |-> TRUE,
            json |-> [status |-> <<"success">>, is_banned |-> TRUE]]
      [] name = "login_bad_password" ->
           [raw |-> <<"{", "status", "Invalid", "password", "}">>, parsed |-> TRUE,
            json |-> [status |-> <<"Invalid", "password">>]]
      [] name = "login_rate" ->
           [raw |-> <<"{", "status", "Rate", "limit", "exceeded", "}">>,
            parsed |-> TRUE,
            json |-> [status |-> <<"Rate", "limit", "exceeded">>]]
      [] name = "login_no_status" ->
           [raw |-> <<"{", "}">>, parsed |-> TRUE, json |-> <<>>]
      [] name = "rate_and_server_error" ->
           [raw |-> <<"Rate", "limit", "exceeded", "-", "Internal", "server", "error">>,
            parsed |-> FALSE, json |-> <<>>]
      [] name = "key_and_server_error" ->
           [raw |-> <<"Invalid", "API", "key", "-", "Internal", "server", "error">>,
            parsed |-> FALSE, json |-> <<>>]
      [] name = "daily_and_server_error" ->
           [raw |-> <<"Daily", "limit", "exceeded", "-", "Server", "timeout", "error">>,
            parsed |-> FALSE, json |-> <<>>]
      [] name = "ok_with_rate" ->
           [raw |-> <<"{", "success", "true", "status", "success", "message",
                      "Rate", "limit", "exceeded", "}">>,
            parsed |-> TRUE,
            json |-> [success |-> TRUE, status |-> <<"success">>,
                      message |-> <<"Rate", "limit", "exceeded">>]]
      [] name = "ok_with_key" ->
           [raw |-> <<"{", "success", "true", "status", "success", "message",
                      "Invalid", "API", "key", "}">>,
            parsed |-> TRUE,
            json |-> [success |-> TRUE, status |-> <<"success">>,
                      message |-> <<"Invalid", "API", "key">>]]

\* dict.get(key, default)
Get(json, key, default) == IF key \in DOMAIN json THEN json[key] ELSE default

\* str(e) of the requests exceptions a session.post can raise
ExcTimeout == <<"Read", "timed", "out", ".", "(", "read", "timeout", "=10)">>
ExcReset == <<"Connection", "aborted", ".", "Connection", "reset", "by", "peer">>
ExcSSL == <<"SSL", "certificate", "verify", "failed">>
PostExceptions == {ExcTimeout, ExcReset, ExcSSL}

Exchanges ==
    [kind : {"response"}, body : BodyNames, msg : {<<>>}]
        \cup [kind : {"exception"}, body : {"empty"}, msg : PostExceptions]

(***************************************************************************)
(* Exceptions and MTResponse.                                              *)
(***************************************************************************)
NoException == [type |-> "None", msg |-> <<>>]
RequestException(msg) == [type |-> "RequestException", msg |-> msg]
\* what "raise None" raises
TypeErrorRaiseNone ==
    [type |-> "TypeError",
     msg |-> <<"exceptions", "must", "derive", "from", "BaseException">>]

MTResponse(success, error, is_banned) ==
    [success |-> success, error |-> error, is_banned |-> is_banned]

(***************************************************************************)
(* Endpoints: MTClient.base_url, BACKUP_SERVERS, the status service.       *)
(***************************************************************************)
PRIMARY == "mt-hq"
BACKUP_SERVERS == <<"mtchk-sg", "mtchk-sg-bak", "mtchk-m">>
\* servers that only the status service names
DYNAMIC == "dyn"
DYNAMIC_LOW == "dyn-low"
Servers ==
    {PRIMARY, DYNAMIC, DYNAMIC_LOW}
        \cup {BACKUP_SERVERS[i] : i \in 1..Len(BACKUP_SERVERS)}

\* what GET {server}/ping can bring back in the runs of _switch_server
PingResults == {"pong", "suspended"}

\* ... and what it can bring back at all: a raised exception or a response,
\* with its text and, when the text is JSON, the parsed value (is_dict: the
\* value is an object)
PingNames ==
    PingResults \cup {"timeout", "html", "other_message", "error_status",
                     "no_message", "pong_with_notice", "list"}

Ping(name) ==
    CASE name = "pong" ->
           [kind |-> "response", raw |-> <<"{", "status", "ok", "message", "pong", "}">>,
            parsed |-> TRUE, is_dict |-> TRUE,
            json |-> [status |-> <<"ok">>, message |-> <<"pong">>]]
      [] name = "suspended" ->
           [kind |-> "response", raw |-> <<"<html>">> \o SuspendedMarker \o <<"</html>">>,
            parsed |-> FALSE, is_dict |-> FALSE, json |-> <<>>]
      [] name = "timeout" ->
           [kind |-> "exception", raw |-> <<>>, parsed |-> FALSE, is_dict |-> FALSE,
            json |-> <<>>]
      [] name = "html" ->
           [kind |-> "response", raw |-> <<"<html>", "Bad", "Gateway", "</html>">>,
            parsed |-> FALSE, is_dict |-> FALSE, json |-> <<>>]
      [] name = "other_message" ->
           [kind |-> "response", raw |-> <<"{", "status", "ok", "message", "ping", "}">>,
            parsed |-> TRUE, is_dict |-> TRUE,
            json |-> [status |-> <<"ok">>, message |-> <<"ping">>]]
      [] name = "error_status" ->
           [kind |-> "response",
            raw |-> <<"{", "status", "error", "message", "pong", "}">>,
            parsed |-> TRUE, is_dict |-> TRUE,
            json |-> [status |-> <<"error">>, message |-> <<"pong">>]]
      [] name = "no_message" ->
           [kind |-> "response", raw |-> <<"{", "status", "ok", "}">>,
            parsed |-> TRUE, is_dict |-> TRUE, json |-> [status |-> <<"ok">>]]
      [] name = "pong_with_notice" ->
           [kind |-> "response",
            raw |-> <<"{", "status", "ok", "message", "pong", "notice">>
                        \o SuspendedMarker \o <<"}">>,
            parsed |-> TRUE, is_dict |-> TRUE,
            json |-> [status |-> <<"ok">>, message |-> <<"pong">>,
                      notice |-> SuspendedMarker]]
      [] name = "list" ->
           [kind |-> "response", raw |-> <<"[", "pong", "]">>,
            parsed |-> TRUE, is_dict |-> FALSE, json |-> <<>>]

\* a probe that no server passes
test_server_never(ping) == FALSE

\* a probe that does not look for the suspended marker
test_server_unmarked(ping) ==
    /\ Ping(ping).kind = "response"
    /\ Ping(ping).parsed
    /\ Ping(ping).is_dict
    /\ Get(Ping(ping).json, "status", <<>>) = <<"ok">>
    /\ Get(Ping(ping).json, "message", <<>>) = <<"pong">>

\* MTClient._test_server
test_server(ping) ==
    LET response == Ping(ping)
    IN IF response.kind = "exception" THEN FALSE
       ELSE IF Contains(response.raw, SuspendedMarker) THEN FALSE
       ELSE IF ~response.parsed THEN FALSE
       \* data.get of a value that is no object raises AttributeError:
       \* "except Exception: return False"
       ELSE IF ~response.is_dict THEN FALSE
       ELSE /\ Get(response.json, "status", <<>>) = <<"ok">>
            /\ Get(response.json, "message", <<>>) = <<"pong">>

\* what GET /status/json can bring back: data["servers"] in the order of the
\* service, or nothing when the request fails
StatusLists ==
    { <<>>,
      << [name |-> DYNAMIC_LOW, uptime_percentage |-> 50],
         [name |-> BACKUP_SERVERS[1], uptime_percentage |-> 99],
         [name |-> DYNAMIC, uptime_percentage |-> 90] >>,
      << [name |-> DYNAMIC, uptime_percentage |-> 0],
         [name |-> DYNAMIC_LOW, uptime_percentage |-> 50] >> }

\* sorted(..., key=uptime_percentage, reverse=True): a stable sort, entries of
\* equal uptime keep their order
RECURSIVE sorted_by_uptime(_)
sorted_by_uptime(servers) ==
    IF servers = <<>> THEN <<>>
    ELSE LET done == sorted_by_uptime(SubSeq(servers, 1, Len(servers) - 1))
             s == servers[Len(servers)]
             \* s goes behind every entry whose uptime is not lower
             n == Cardinality({k \in 1..Len(done) :
                                 done[k].uptime_percentage >= s.uptime_percentage})
         IN SubSeq(done, 1, n) \o <<s>> \o SubSeq(done, n + 1, Len(done))

\* MTClient._fetch_available_servers: uptime > 0, sorted by descending uptime
fetch_available_servers(status) ==
    sorted_by_uptime(SelectSeq(status, LAMBDA s : s.uptime_percentage > 0))

\* first index at which a sequence of truth values holds, 0 when it holds nowhere:
\* the position at which a "for ... in ...: if ...: return" loop returns
FirstIndex(tests) ==
    IF \E i \in 1..Len(tests) : tests[i]
    THEN CHOOSE i \in 1..Len(tests) : tests[i] /\ \A j \in 1..(i - 1) : ~tests[j]
    ELSE 0

InBackups(name) == \E i \in 1..Len(BACKUP_SERVERS) : BACKUP_SERVERS[i] = name

\* MTClient._update_base_url: the new endpoint is written to the config file and
\* only then stored in the client; when the file is missing or the write raises
\* neither happens
update_base_url(base, saved, new_url, config_ok) ==
    IF config_ok THEN [base_url |-> new_url, saved_url |-> new_url]
    ELSE [base_url |-> base, saved_url |-> saved]

\* MTClient._switch_server, with the answers of the network as arguments:
\* ping[s] for every server, the status list, and whether the config file can
\* be rewritten.  Besides what the method returns and leaves in the client,
\* the result names the servers it probed, in order, whether it fetched the
\* status list, and the server it handed to _update_base_url.
NoTarget == "none"

switch_server(base, saved, ping, status, config_ok) ==
    LET b == FirstIndex([k \in 1..Len(BACKUP_SERVERS) |->
                            /\ BACKUP_SERVERS[k] # base
                            /\ test_server(ping[BACKUP_SERVERS[k]])])
        servers == fetch_available_servers(status)
        names == [k \in 1..Len(servers) |-> servers[k].name]
        d == FirstIndex([k \in 1..Len(servers) |->
                            /\ names[k] # base
                            /\ ~InBackups(names[k])
                            /\ test_server(ping[names[k]])])
        backups_probed ==
            SelectSeq(SubSeq(BACKUP_SERVERS, 1, IF b # 0 THEN b ELSE Len(BACKUP_SERVERS)),
                      LAMBDA s : s # base)
        dynamic_probed ==
            SelectSeq(SubSeq(names, 1, IF d # 0 THEN d ELSE Len(names)),
                      LAMBDA s : s # base /\ ~InBackups(s))
    IN IF test_server(ping[base])
       THEN [switched |-> FALSE, base_url |-> base, saved_url |-> saved,
             target |-> NoTarget, probed |-> <<base>>, fetched |-> FALSE]
       ELSE IF b # 0
       THEN [switched |-> TRUE, target |-> BACKUP_SERVERS[b],
             probed |-> <<base>> \o backups_probed, fetched |-> FALSE]
                @@ update_base_url(base, saved, BACKUP_SERVERS[b], config_ok)
       ELSE IF d # 0
       THEN [switched |-> TRUE, target |-> names[d],
             probed |-> <<base>> \o backups_probed \o dynamic_probed,
             fetched |-> TRUE]
                @@ update_base_url(base, saved, names[d], config_ok)
       ELSE [switched |-> FALSE, base_url |-> base, saved_url |-> saved,
             target |-> NoTarget,
             probed |-> <<base>> \o backups_probed \o dynamic_probed,
             fetched |-> TRUE]

\* no _switch_server call
NoCall == [called |-> FALSE]

\* every _switch_server call there can be at an endpoint and a persisted one:
\* the answers it got and its result
SwitchTable ==
    [at \in Servers \X Servers |->
        { [called |-> TRUE, at |-> at, ping |-> ping, status |-> status,
           config_ok |-> config_ok]
              @@ switch_server(at[1], at[2], ping, status, config_ok) :
            ping \in [Servers -> PingResults], status \in StatusLists,
            config_ok \in BOOLEAN }] @@ <<>>

\* what a call returned and left in the client and in the config file
Summary(call) ==
    [called |-> TRUE, switched |-> call.switched, base_url |-> call.base_url,
     saved_url |-> call.saved_url]

SwitchSummaries ==
    [at \in Servers \X Servers |-> {Summary(call) : call \in SwitchTable[at]}] @@ <<>>

SwitchOutcomes(base, saved) == SwitchSummaries[<<base, saved>>]

(***************************************************************************)
(* MTClient._make_request_with_retry: one iteration of its loop.           *)
(* attempt is the loop index, last_error the exception kept so far, x the  *)
(* exchange, switched what _switch_server returned if it was called.       *)
(***************************************************************************)
MAX_REQUEST_RETRIES == 3

RequestErrorMarkers ==
    { <<"timeout">>, <<"timed", "out">>, <<"connection", "error">>,
      <<"connection", "refused">>, <<"connection", "reset">>,
      <<"no", "route", "to", "host">>, <<"connection", "aborted">> }

ErrEmptyResponse == <<"Empty", "response", "received">>
ErrAllSuspended == <<"All", "servers", "are", "suspended">>

IsSuspended(x) == x.kind = "response" /\ Contains(Body(x.body).raw, SuspendedMarker)

make_request_with_retry(attempt, last_error, x, switched) ==
    LET more == attempt < MAX_REQUEST_RETRIES - 1
        Continue(err) ==
            \* "continue"; after the last iteration the loop ends and
            \* "raise last_error" runs
            IF more
            THEN [next |-> "continue", attempt |-> attempt + 1, last_error |-> err,
                  exc |-> NoException]
            ELSE [next |-> "raise", attempt |-> attempt, last_error |-> err,
                  exc |-> IF err = NoException THEN TypeErrorRaiseNone ELSE err]
        Raise(e) ==
            [next |-> "raise", attempt |-> attempt, last_error |-> e, exc |-> e]
    IN IF x.kind = "exception"
       THEN LET e == RequestException(x.msg)
            IN IF \E m \in RequestErrorMarkers : Contains(Lower(x.msg), m)
               THEN Continue(e)
               ELSE Raise(e)
       ELSE IF Body(x.body).raw = <<>>
       THEN IF more THEN Continue(last_error)
            ELSE Raise(RequestException(ErrEmptyResponse))
       ELSE IF IsSuspended(x)
       THEN IF switched THEN Continue(last_error)
            ELSE Raise(RequestException(ErrAllSuspended))
       ELSE [next |-> "return", attempt |-> attempt, last_error |-> last_error,
             exc |-> NoException]

(***************************************************************************)
(* MTClient.validate_account and MTClient.login: one exchange of the call. *)
(* The result is "continue" (the request is sent again), "recurse" (the    *)
(* method calls itself after a failover) or "done" with what the call      *)
(* hands to check_account: an MTResponse, or a raised RequestException.    *)
(***************************************************************************)
VALIDATE_BAN_KEYS ==
    << <<"limit_exceeded">>, <<"Invalid", "or", "inactive", "API", "key">>,
       <<"Invalid", "API", "key">> >>
VALIDATE_RETRY_KEYS ==
    { <<"Server", "timeout", "error">>, <<"Internal", "server", "error">> }
LOGIN_BAN_KEYS ==
    << <<"limit_exceeded">>, <<"Invalid", "or", "inactive", "API", "key">>,
       <<"Invalid", "API", "key">>, <<"Daily", "request", "limit", "exceeded">>,
       <<"Daily", "validation", "limit", "exceeded">> >>
LOGIN_RETRY_KEYS ==
    { <<"Server", "timeout", "error">>, <<"Internal", "server", "error">>,
      <<"proxy", "error">>, <<"Server", "error">>, <<"Invalid", "parameters">> }

ErrServerRetry == <<"Server", "error", "-", "please", "retry">>
ErrInvalidFormatRetry ==
    <<"Invalid", "response", "format", "-", "retrying", "with", "new", "proxy">>
ErrInvalidParamsRetry ==
    <<"Invalid", "parameters", "-", "retrying", "with", "new", "proxy">>
ErrFailedValidateRetry ==
    <<"Failed", "to", "validate", "-", "retrying", "with", "new", "proxy">>
ErrInvalidFormat == <<"Invalid", "response", "format">>
ErrDailyLimit == <<"Daily", "Limit", "Exceeded", "!", "Limit:", "0,", "Used:", "0">>

Returned(response) ==
    [next |-> "done", attempt |-> 0, last_error |-> NoException,
     raised |-> FALSE, response |-> response]
Raised(msg) ==
    [next |-> "done", attempt |-> 0, last_error |-> NoException,
     raised |-> TRUE, response |-> MTResponse(FALSE, msg, FALSE)]
Recurse ==
    [next |-> "recurse", attempt |-> 0, last_error |-> NoException,
     raised |-> FALSE, response |-> MTResponse(FALSE, <<>>, FALSE)]
Again(r) ==
    [next |-> "continue", attempt |-> r.attempt, last_error |-> r.last_error,
     raised |-> FALSE, response |-> MTResponse(FALSE, <<>>, FALSE)]

\* whether the exchange makes the client call _switch_server
validate_needs_switch(x) ==
    \/ IsSuspended(x)
    \/ /\ x.kind = "response"
       /\ Body(x.body).raw # <<>>
       /\ ~ \E i \in 1..Len(VALIDATE_BAN_KEYS) :
               icontains(VALIDATE_BAN_KEYS[i], Body(x.body).raw)
       /\ ~ any_key_in(VALIDATE_RETRY_KEYS, Body(x.body).raw)
       /\ ~ Body(x.body).parsed

login_needs_switch(x) ==
    \/ IsSuspended(x)
    \/ /\ x.kind = "response"
       /\ Body(x.body).raw # <<>>
       /\ ~ \E i \in 1..Len(LOGIN_BAN_KEYS) :
               icontains(LOGIN_BAN_KEYS[i], Body(x.body).raw)
       /\ ~ any_key_in(LOGIN_RETRY_KEYS, Body(x.body).raw)
       /\ ~ Body(x.body).parsed

\* the part of validate_account after _make_request_with_retry returned
validate_account_response(body, switched) ==
    LET json == body.json
        b == FirstIndex([k \in 1..Len(VALIDATE_BAN_KEYS) |-> icontains(VALIDATE_BAN_KEYS[k], body.raw)])
        error_msg == Get(json, "message", <<"Unknown", "error">>)
        \* "except requests.RequestException as e" of validate_account
        Caught(msg) == Returned(MTResponse(FALSE, <<"Request", "error:">> \o msg, FALSE))
    IN IF b # 0 THEN Returned(MTResponse(FALSE, VALIDATE_BAN_KEYS[b], FALSE))
       ELSE IF any_key_in(VALIDATE_RETRY_KEYS, body.raw)
       THEN Returned(MTResponse(FALSE, ErrServerRetry, FALSE))
       ELSE IF ~body.parsed
       THEN IF switched THEN Recurse ELSE Caught(ErrInvalidFormatRetry)
       ELSE IF Get(json, "success", FALSE) = TRUE
       THEN Returned(MTResponse(TRUE, <<>>, FALSE))
       ELSE IF Get(json, "error_code", 0) = 401
       THEN Returned(MTResponse(FALSE,
                Get(json, "message", <<"Authorization", "failed">>), FALSE))
       ELSE IF Get(json, "message", <<>>) = <<"Invalid", "parameters">>
       THEN Caught(ErrInvalidParamsRetry)
       ELSE IF error_msg = <<"Failed", "to", "validate", "account", "credentials">>
       THEN Caught(ErrFailedValidateRetry)
       ELSE Returned(MTResponse(FALSE, error_msg, FALSE))

validate_account(password, attempt, last_error, x, switched) ==
    LET fmt == validate_password_format(password)
        r == make_request_with_retry(attempt, last_error, x, switched)
    IN IF ~fmt.is_valid THEN Returned(MTResponse(FALSE, fmt.error, FALSE))
       ELSE IF r.next = "continue" THEN Again(r)
       ELSE IF r.next = "raise"
       THEN IF r.exc.type = "RequestException"
            THEN Returned(MTResponse(FALSE, <<"Request", "error:">> \o r.exc.msg, FALSE))
            ELSE Returned(MTResponse(FALSE, <<"Error:">> \o r.exc.msg, FALSE))
       ELSE validate_account_response(Body(x.body), switched)

\* the part of login after _make_request_with_retry returned
login_response(body, switched) ==
    LET json == body.json
        b == FirstIndex([k \in 1..Len(LOGIN_BAN_KEYS) |-> icontains(LOGIN_BAN_KEYS[k], body.raw)])
        status == Get(json, "status", <<"Unknown", "error">>)
    IN IF b # 0
       THEN IF body.parsed /\ "api_key_info" \in DOMAIN json
            THEN Returned(MTResponse(FALSE, ErrDailyLimit, FALSE))
            ELSE Returned(MTResponse(FALSE, LOGIN_BAN_KEYS[b], FALSE))
       ELSE IF any_key_in(LOGIN_RETRY_KEYS, body.raw) THEN Raised(ErrServerRetry)
       ELSE IF ~body.parsed
       THEN IF switched THEN Recurse ELSE Raised(ErrInvalidFormatRetry)
       ELSE IF Get(json, "status", <<>>) = <<"success">>
       THEN Returned(MTResponse(TRUE, <<>>, Get(json, "is_banned", FALSE)))
       ELSE IF Get(json, "status", <<>>) \in
                  { <<"Invalid", "password">>, <<"Account", "not", "found">> }
       THEN Returned(MTResponse(FALSE, json["status"], FALSE))
       ELSE IF Get(json, "status", <<>>) = <<"Invalid", "parameters">>
       THEN Raised(ErrInvalidParamsRetry)
       ELSE IF json = <<>> \/ "status" \notin DOMAIN json
       THEN Raised(ErrInvalidFormat)
       ELSE IF Get(json, "status", <<>>) = <<"Server", "error">>
       THEN Raised(ErrServerRetry)
       ELSE Returned(MTResponse(FALSE, status, FALSE))

login(password, attempt, last_error, x, switched) ==
    LET fmt == validate_password_format(password)
        r == make_request_with_retry(attempt, last_error, x, switched)
    IN IF ~fmt.is_valid THEN Returned(MTResponse(FALSE, fmt.error, FALSE))
       ELSE IF r.next = "continue" THEN Again(r)
       ELSE IF r.next = "raise"
       THEN IF r.exc.type = "RequestException"
            THEN Raised(r.exc.msg)
            ELSE Returned(MTResponse(FALSE, <<"Error:">> \o r.exc.msg, FALSE))
       ELSE login_response(Body(x.body), switched)

(***************************************************************************)
(* check_account: what it does with the result of the client call.         *)
(***************************************************************************)
max_retries == 100

CHECK_LOGIN_BAN_KEYS ==
    { <<"Rate", "limit", "exceeded">>, <<"Invalid", "API", "key">>,
      <<"Daily", "Limit", "Exceeded">>, <<"limit_exceeded">>,
      <<"Invalid", "or", "inactive", "API", "key">>,
      <<"Daily", "request", "limit", "exceeded">>,
      <<"Daily", "validation", "limit", "exceeded">> }
CHECK_LOGIN_RETRY_KEYS ==
    { <<"proxy", "error">>, <<"timeout">>, <<"connection", "refused">>,
      <<"connection", "reset">>, <<"no", "route", "to", "host">>,
      <<"Server", "error">>, <<"Internal", "server", "error">> }
CHECK_VALIDATE_BAN_KEYS ==
    { <<"Rate", "limit", "exceeded">>, <<"Invalid", "API", "key">>,
      <<"Daily", "Limit", "Exceeded">>, <<"limit_exceeded">> }
CHECK_VALIDATE_RETRY_KEYS ==
    { <<"proxy", "error">>, <<"timeout">>, <<"connection", "refused">>,
      <<"connection", "reset">>, <<"no", "route", "to", "host">>,
      <<"Server", "error">>, <<"Internal", "server", "error">>,
      <<"Invalid", "parameters">>,
      <<"Failed", "to", "validate", "account", "credentials">>,
      <<"Invalid", "response", "format">> }

ReasonMaxRetries == <<"Max", "retries", "exceeded">>

Outcome(kind, reason, is_banned) ==
    [kind |-> kind, reason |-> reason, is_banned |-> is_banned]

\* a loop iteration that takes every failure for a ban
check_account_result_all_ban(info, r, retry_count) ==
    IF r.raised \/ ~r.response.success
    THEN Outcome("ban", r.response.error, FALSE)
    ELSE Outcome("hit", <<>>, r.response.is_banned)

\* the body of one loop iteration after the client call returned r
\* (r.raised: the call raised requests.RequestException)
check_account_result(info, r, retry_count) ==
    LET more == retry_count < max_retries - 1
        error == r.response.error
        ban_keys == IF info THEN CHECK_LOGIN_BAN_KEYS ELSE CHECK_VALIDATE_BAN_KEYS
        retry_keys == IF info THEN CHECK_LOGIN_RETRY_KEYS ELSE CHECK_VALIDATE_RETRY_KEYS
    IN IF r.raised
       THEN IF more THEN Outcome("retry", error, FALSE)
            ELSE Outcome("fail", error, FALSE)
       ELSE IF ~r.response.success
       THEN IF any_key_in(ban_keys, error) THEN Outcome("ban", error, FALSE)
            ELSE IF any_key_in(retry_keys, error) /\ more
            THEN Outcome("retry", error, FALSE)
            ELSE Outcome("fail", error, FALSE)
       ELSE Outcome("hit", <<>>, r.response.is_banned)

(***************************************************************************)
(* The client call and the loop iteration, tabulated over their arguments. *)
(***************************************************************************)
LastErrors == {NoException} \cup {RequestException(m) : m \in PostExceptions}

\* credentials of the runs: too short, with a symbol, without a digit,
\* valid in lower case, valid with an upper-case letter
Passwords ==
    { <<"a", "b", "1">>,
      <<"a", "b", "!", "a", "b", "1">>,
      <<"a", "b", "a", "b", "a", "b">>,
      <<"1", "a", "b", "a", "b", "a">>,
      <<"a", "B", "1", "a", "b", "a">> }

\* the passwords check_account can hold after its format check
LocalPasswords ==
    {validate_password_format(p).password :
        p \in {q \in Passwords : validate_password_format(q).is_valid}}

client_call(info, pw, a, e, x, sw) ==
    IF info THEN login(pw, a, e, x, sw) ELSE validate_account(pw, a, e, x, sw)

needs_switch(info, x) ==
    IF info THEN login_needs_switch(x) ELSE validate_needs_switch(x)

\* One exchange of an attempt: what the client call does with it and, when
\* the call is over, what the loop iteration of check_account does then, in
\* its last iteration (retry_count = max_retries - 1) and in an earlier one.
\* The functions are tabulated once (@@ yields the table).
AttemptTable ==
    [info \in BOOLEAN, pw \in LocalPasswords, a \in 0..(MAX_REQUEST_RETRIES - 1),
     e \in LastErrors, x \in Exchanges, sw \in BOOLEAN |->
        LET r == client_call(info, pw, a, e, x, sw)
        IN [call |-> r,
            last |-> check_account_result(info, r, max_retries - 1),
            earlier |-> check_account_result(info, r, 0)]] @@ <<>>

NeedsSwitch == [info \in BOOLEAN, x \in Exchanges |-> needs_switch(info, x)] @@ <<>>

\* the response takes the retry_keys branch of the client call, or its body
\* is no JSON (JSONDecodeError), or it is the page of a suspended service
fault_response(info, x) ==
    /\ x.kind = "response"
    /\ Body(x.body).raw # <<>>
    /\ \/ IsSuspended(x)
       \/ /\ ~ \E k \in 1..Len(IF info THEN LOGIN_BAN_KEYS ELSE VALIDATE_BAN_KEYS) :
                   icontains((IF info THEN LOGIN_BAN_KEYS ELSE VALIDATE_BAN_KEYS)[k],
                             Body(x.body).raw)
          /\ \/ any_key_in(IF info THEN LOGIN_RETRY_KEYS ELSE VALIDATE_RETRY_KEYS,
                            Body(x.body).raw)
             \/ ~Body(x.body).parsed
FaultResponse == [info \in BOOLEAN, x \in Exchanges |-> fault_response(info, x)] @@ <<>>

\* session.post raised, or "not response.text.strip()": the request brought
\* no response body
transport_failure(x) == x.kind = "exception" \/ Body(x.body).raw = <<>>
TransportFailure == [x \in Exchanges |-> transport_failure(x)] @@ <<>>

\* the message of the service in a response that reports bad credentials:
\* the status of a login response that is "Invalid password" or "Account not
\* found", the message of a validate response without success that
\* check_account finds neither among its ban keys nor among its retry keys;
\* <<>> for every other exchange
auth_failure_message(info, x) ==
    LET body == Body(x.body)
        status == Get(body.json, "status", <<>>)
        message == Get(body.json, "message", <<>>)
    IN IF x.kind # "response" \/ ~body.parsed THEN <<>>
       ELSE IF info
       THEN IF status \in { <<"Invalid", "password">>, <<"Account", "not", "found">> }
            THEN status ELSE <<>>
       ELSE IF /\ Get(body.json, "success", TRUE) = FALSE
               /\ ~any_key_in(CHECK_VALIDATE_BAN_KEYS, message)
               /\ ~any_key_in(CHECK_VALIDATE_RETRY_KEYS, message)
            THEN message ELSE <<>>
AuthFailureMessage ==
    [info \in BOOLEAN, x \in Exchanges |-> auth_failure_message(info, x)] @@ <<>>

\* the quota and key markers of the specification
QuotaMarkers ==
    { <<"Rate", "limit", "exceeded">>, <<"Invalid", "API", "key">>,
      <<"Daily", "limit", "exceeded">> }
has_quota_marker(x) ==
    x.kind = "response" /\ any_key_in(QuotaMarkers, Body(x.body).raw)
HasQuotaMarker == [x \in Exchanges |-> has_quota_marker(x)] @@ <<>>

\* the body holds a quota or key marker and also one of the client's retry
\* keys, or it holds the marker and is a payload that reports success
contested(info, x) ==
    /\ has_quota_marker(x)
    /\ \/ any_key_in(IF info THEN LOGIN_RETRY_KEYS ELSE VALIDATE_RETRY_KEYS,
                      Body(x.body).raw)
       \/ /\ Body(x.body).parsed
          /\ IF info THEN Get(Body(x.body).json, "status", <<>>) = <<"success">>
             ELSE Get(Body(x.body).json, "success", FALSE) = TRUE
Contested == [info \in BOOLEAN, x \in Exchanges |-> contested(info, x)] @@ <<>>

(***************************************************************************)
(* Proxy descriptors: what get_next_proxy returns, and the proxy entry of  *)
(* the payload that make_request builds from the proxy argument of the     *)
(* client call.                                                            *)
(***************************************************************************)
\* None
NoProxy == <<>>

\* get_next_proxy with a proxy file of these lines: a descriptor for a line
\* picked by random.choice, with the credentials when both are configured
get_next_proxy(lines, type, username, password) ==
    { [url |-> url, type |-> type]
          @@ (IF username # "" /\ password # ""
              THEN [username |-> username, password |-> password]
              ELSE <<>>) : url \in lines }

\* the descriptors of a run: a proxy file of one line and no credentials, or
\* one of two lines with credentials
OneProxy == get_next_proxy({"proxy-a"}, "http", "", "")
TwoProxies == get_next_proxy({"proxy-a", "proxy-b"}, "socks5", "user", "secret")

\* "if proxy: ..." of make_request: the proxy entry of the payload, <<>> when
\* the payload gets none
payload_proxy(proxy) ==
    IF proxy = NoProxy THEN <<>>
    ELSE IF "url" \in DOMAIN proxy
    THEN [url |-> proxy.url, type |-> Get(proxy, "type", "http")]
            @@ (IF Get(proxy, "username", "") # "" /\ Get(proxy, "password", "") # ""
                THEN [username |-> proxy.username, password |-> proxy.password]
                ELSE <<>>)
    ELSE proxy

\* the JSON payload of the request of a client call with these arguments
payload(call) ==
    [username |-> call.username,
     password |-> validate_password_format(call.password).password,
     proxy |-> payload_proxy(call.proxy)]

\* the arguments of the call that validate_account and login make to
\* themselves after a failover: validate_account(username, password),
\* login(username, password, proxy), password being the modified password
recursive_call(info, call) ==
    [username |-> call.username,
     password |-> validate_password_format(call.password).password,
     proxy |-> IF info THEN call.proxy ELSE NoProxy]

\* no client call
NoArguments == [username |-> 0, password |-> <<>>, proxy |-> NoProxy]

(***************************************************************************)
(* The state.                                                              *)
(***************************************************************************)
VARIABLES
    combos,       \* the loaded credentials: the password of each
    check_info,   \* detailed mode (login) or basic mode (validate)
    thread_count, \* max_workers of the pool
    env,          \* what the environment may do in this run
    used,         \* what it has done so far
    main_pc,      \* where the main thread is
    next_submit,  \* index of the next credential the main thread submits
    futures,      \* per credential: "none", "pending", "running", "done", "cancelled"
    yielded,      \* futures as_completed has handed to the main thread
    stop_event,   \* threading.Event of main
    exited,       \* os._exit was called
    exit_code,    \* its argument
    reported,     \* the statistics were printed
    pc,           \* per worker thread: "idle", "loop", "request", "ban"
    cur,          \* per worker thread: index of its credential
    local,        \* per worker thread: retry_count and password of
                  \* check_account, attempt and last_error of
                  \* _make_request_with_retry
    seen,         \* per worker thread: what its last exchange brought
    counter,      \* ResultCounter
    base_url,     \* MTClient.base_url
    saved_url,    \* base_url of the config file
    hist,         \* per credential: what was done for it so far
    ban_seen,     \* some attempt was classified as a ban (handle_ban entered)
    file,         \* the credential file and what load_combo_file made of it
    proxy_list    \* the global proxy_list of checker.py and who loaded it

vars ==
    <<combos, check_info, thread_count, env, used, main_pc, next_submit, futures,
      yielded, stop_event, exited, exit_code, reported, pc, cur, local, seen,
      counter, base_url, saved_url, hist, ban_seen, file, proxy_list>>

config_vars == <<combos, check_info, thread_count, env, file, proxy_list>>
main_vars == <<main_pc, next_submit, yielded, reported>>
exit_vars == <<exited, exit_code>>
url_vars == <<base_url, saved_url>>

Workers == 1..thread_count
Creds == 1..Len(combos)

NoHist ==
    [started |-> FALSE,      \* check_account was called for it
     invoked |-> 0,          \* ... that many times
     after_stop |-> FALSE,   \* ... when stop_event was set
     after_ban |-> FALSE,    \* ... when some attempt had been classified as a ban
     interrupted |-> FALSE,  \* stop_event was set while it was being checked
     attempts |-> 0,         \* loop iterations begun
     retry_after_stop |-> FALSE, \* an iteration after the first began with stop_event set
     transients |-> 0,       \* iterations that ended in a retryable fault
     proxy |-> FALSE,        \* a proxy was acquired
     proxy_calls |-> 0,      \* calls of get_next_proxy
     used |-> {},            \* the urls of the proxies of its attempts
     reused |-> FALSE,       \* an attempt got a proxy that an earlier one had
     strayed |-> FALSE,      \* a request carried another payload than that of
                             \* the arguments check_account passed
     request |-> FALSE,      \* a request was sent
     validate_sent |-> FALSE, \* ... to /validate
     login_sent |-> FALSE,   \* ... to /login
     validate_ok |-> FALSE,  \* a validate_account call returned success
     auth_failure |-> <<>>,  \* the message of a response that reported bad credentials
     late |-> FALSE,         \* ... after a terminal outcome had been tallied
     sink_failed |-> FALSE,  \* save_result raised inside an attempt
     banned |-> 0,           \* calls of handle_ban
     \* calls of counter.increment, by result type
     hit |-> 0, fail |-> 0, retry |-> 0, ban |-> 0, invalid |-> 0,
     saves |-> 0, saved_password |-> <<>>, sent_password |-> <<>>,
     reason |-> <<>>, returned |-> FALSE]

\* a _switch_server call: the loop it is in, the index of the loop, the
\* servers it fetched, and the server it hands to _update_base_url
NoProbe ==
    [stage |-> "none", k |-> 0, servers |-> <<>>, target |-> NoTarget,
     \* of a _test_server call on its own: what the request brought and
     \* what the call returned
     ping |-> "none", healthy |-> FALSE]

\* retry_count and password of check_account, attempt and last_error of
\* _make_request_with_retry, result_type of ResultCounter.increment and the
\* value it loaded from the counter
NoLocals ==
    [retry_count |-> 0, password |-> <<>>, attempt |-> 0, last_error |-> NoException,
     result_type |-> "none", loaded |-> 0,
     \* proxy_data of check_account, and the arguments of the client call
     \* that is running
     proxy_data |-> NoProxy, call |-> NoArguments,
     \* the _switch_server call that is running
     probe |-> NoProbe]

NoRequest == [requests |-> 0, next |-> "none", exc |-> NoException, x |-> <<>>]

\* marker: the body held a quota or key marker; failover: the exchange made
\* the client call _switch_server; switch: that call; fault: the response
\* was a fault of the endpoint or unreadable; failovers: the _switch_server
\* calls of the client call so far; transport: the request raised or brought
\* an empty body; contested: the body held a quota or key marker together
\* with a retry key or in a payload that reports success
NothingSeen ==
    [marker |-> FALSE, failover |-> FALSE, switch |-> NoCall, fault |-> FALSE,
     failovers |-> 0, transport |-> FALSE, contested |-> FALSE,
     \* of the thread's _switch_server calls in a run of concurrent failovers:
     \* the servers that answered a probe, the names fetched, and whether a
     \* call returned True
     healthy |-> {}, fetched |-> {}, switched |-> FALSE,
     \* of the thread's _make_request_with_retry call in a run of such calls:
     \* the calls of request_func so far, how the call ended ("return",
     \* "raise", or "none" while it runs), the exception it raised and the
     \* exchange it ended with
     request |-> NoRequest]

\* "proxy_list = []": nothing loaded, and no thread has run the load
NoProxyList == [lines |-> {}, loaders |-> {}]

\* a credential file that load_combo_file has read to its end
NoFile == [lines |-> <<>>, next |-> 1, combos |-> <<>>, returned |-> TRUE]

InitCommon ==
    /\ check_info \in BOOLEAN
    /\ used = [faults |-> 0, sink_fails |-> 0, repeats |-> 0, switches |-> 0,
               calls |-> 0]
    /\ main_pc = "submit"
    /\ next_submit = 1
    /\ futures = [i \in Creds |-> "none"]
    /\ yielded = 0
    /\ stop_event = FALSE
    /\ exited = FALSE
    /\ exit_code = 0
    /\ reported = FALSE
    /\ pc = [w \in Workers |-> "idle"]
    /\ cur = [w \in Workers |-> 0]
    /\ local = [w \in Workers |-> NoLocals]
    /\ seen = [w \in Workers |-> NothingSeen]
    /\ counter = [hits |-> 0, fails |-> 0, retries |-> 0, bans |-> 0, invalid |-> 0]
    /\ base_url = PRIMARY
    /\ saved_url = PRIMARY
    /\ hist = [i \in Creds |-> NoHist]
    /\ ban_seen = FALSE
    /\ proxy_list = NoProxyList

\* the runs of the pool: a short password and a valid one in lower case; the
\* backend answers with one of PoolBodies or the request raises an SSL error,
\* and the result files can be written
PoolPasswords == { <<"a", "b", "1">>, <<"1", "a", "b", "a", "b", "a">> }
PoolBodies ==
    {"ok", "bad_credentials", "rate_json", "rate_text", "server_error_text",
     "login_ok", "login_ok_banned", "login_bad_password", "login_rate"}
PoolExchanges ==
    {x \in Exchanges : \/ x.kind = "response" /\ x.body \in PoolBodies
                       \/ x.kind = "exception" /\ x.msg = ExcSSL}

\* The pool starts a thread only when a task is submitted and no thread is
\* idle, so a run never has more threads than credentials.
InitPool ==
    /\ \E n \in 1..MaxCombos :
          /\ combos \in [1..n -> PoolPasswords]
          /\ thread_count \in 1..(IF n < MaxThreads THEN n ELSE MaxThreads)
    /\ env = [faults |-> MaxFaults, sink_fails |-> 0, repeats |-> 0,
              switches |-> 0, exchanges |-> PoolExchanges,
              proxies |-> OneProxy]
    /\ file = NoFile
    /\ InitCommon

\* the runs of one credential against the whole environment
InitClient ==
    /\ combos \in [1..1 -> Passwords]
    /\ thread_count = 1
    /\ env = [faults |-> MaxFaults, sink_fails |-> MaxSinkFails,
              repeats |-> MaxRepeats, switches |-> MaxSwitches,
              exchanges |-> {x \in Exchanges : x.body \notin ContestedBodies},
              proxies |-> OneProxy]
    /\ file = NoFile
    /\ InitCommon

\* the runs of one credential with its whole attempt budget: every attempt
\* can fail to get a proxy, or send a request that is answered with one of
\* DeepBodies
DeepBodies == {"server_error_text", "login_ok", "ok", "rate_json"}
DeepExchanges == {x \in Exchanges : x.kind = "response" /\ x.body \in DeepBodies}
InitDeep ==
    /\ combos \in [1..1 -> PoolPasswords]
    /\ thread_count = 1
    /\ env = [faults |-> max_retries, sink_fails |-> MaxSinkFails, repeats |-> 0,
              switches |-> 0, exchanges |-> DeepExchanges,
              proxies |-> OneProxy]
    /\ file = NoFile
    /\ InitCommon

\* the runs of one credential with a proxy file of two lines and proxy
\* credentials: the backend answers with one of ProxyBodies
ProxyBodies == {"html", "server_error_text", "ok", "login_ok", "bad_credentials"}
ProxyExchanges == {x \in Exchanges : x.kind = "response" /\ x.body \in ProxyBodies}
InitProxies ==
    /\ combos \in [1..1 -> {<<"1", "a", "b", "a", "b", "a">>}]
    /\ thread_count = 1
    /\ env = [faults |-> MaxFaults + 1, sink_fails |-> 0, repeats |-> MaxRepeats,
              switches |-> MaxSwitches, exchanges |-> ProxyExchanges,
              proxies |-> TwoProxies]
    /\ file = NoFile
    /\ InitCommon

(***************************************************************************)
(* ResultCounter.increment, and the record of what was done for one        *)
(* credential.                                                             *)
(***************************************************************************)
increment(c, result_type) ==
    CASE result_type = "hit" -> [c EXCEPT !.hits = @ + 1]
      [] result_type = "fail" -> [c EXCEPT !.fails = @ + 1]
      [] result_type = "retry" -> [c EXCEPT !.retries = @ + 1]
      [] result_type = "ban" -> [c EXCEPT !.bans = @ + 1]
      [] result_type = "invalid" -> [c EXCEPT !.invalid = @ + 1]
      [] OTHER -> c

Noted(h, result_type) == [h EXCEPT ![result_type] = @ + 1]

\* a terminal outcome of the credential has been tallied
Tallied(h) == h.hit + h.fail + h.invalid + h.ban > 0

\* save_result was called with this password
Saved(h, pw) == [h EXCEPT !.saves = @ + 1, !.saved_password = pw]

FaultAllowed == used.faults < env.faults
SinkFailAllowed == used.sink_fails < env.sink_fails
RepeatAllowed == used.repeats < env.repeats
SwitchAllowed == used.switches < env.switches

(***************************************************************************)
(* The main thread: main, from the creation of stop_event to the printed   *)
(* statistics.                                                             *)
(***************************************************************************)
\* a process whose threads go on after the exit call
RunningThreads == TRUE

\* os._exit ends the process with all its threads
Running == ~exited

\* signal_handler
Interrupt ==
    /\ Running
    /\ main_pc \in {"submit", "wait", "shutdown"}
    /\ ~stop_event
    /\ stop_event' = TRUE
    /\ hist' = [i \in Creds |->
                  IF \E w \in Workers : cur[w] = i /\ pc[w] \in {"loop", "request"}
                  THEN [hist[i] EXCEPT !.interrupted = TRUE]
                  ELSE hist[i]]
    /\ UNCHANGED <<config_vars, used, main_vars, futures, exit_vars, pc, cur,
                   local, seen, counter, url_vars, ban_seen>>

\* "for combo in combos: if stop_event.is_set(): break; executor.submit(...)"
Submit ==
    /\ Running
    /\ main_pc = "submit"
    /\ next_submit <= Len(combos)
    /\ ~stop_event
    /\ futures' = [futures EXCEPT ![next_submit] = "pending"]
    /\ next_submit' = next_submit + 1
    /\ UNCHANGED <<config_vars, used, main_pc, yielded, reported, stop_event,
                   exit_vars, pc, cur, local, seen,
                   counter, url_vars, hist, ban_seen>>

SubmitEnd ==
    /\ Running
    /\ main_pc = "submit"
    /\ next_submit > Len(combos) \/ stop_event
    /\ main_pc' = "wait"
    /\ UNCHANGED <<config_vars, used, next_submit, yielded, reported, futures,
                   stop_event, exit_vars, pc, cur, local,
                   seen, counter, url_vars, hist, ban_seen>>

Finished == {i \in Creds : futures[i] \in {"done", "cancelled"}}

\* one iteration of "for future in as_completed(futures)"
AsCompleted ==
    /\ Running
    /\ main_pc = "wait"
    /\ yielded < Cardinality(Finished)
    /\ IF stop_event
       THEN /\ futures' = [i \in Creds |->
                              IF futures[i] = "pending" THEN "cancelled" ELSE futures[i]]
            /\ main_pc' = "shutdown"
            /\ yielded' = yielded
       ELSE /\ yielded' = yielded + 1
            /\ UNCHANGED <<futures, main_pc>>
    /\ UNCHANGED <<config_vars, used, next_submit, reported, stop_event, exit_vars,
                   pc, cur, local, seen, counter,
                   url_vars, hist, ban_seen>>

AsCompletedEnd ==
    /\ Running
    /\ main_pc = "wait"
    /\ yielded = next_submit - 1
    /\ main_pc' = "shutdown"
    /\ UNCHANGED <<config_vars, used, next_submit, yielded, reported, futures,
                   stop_event, exit_vars, pc, cur, local,
                   seen, counter, url_vars, hist, ban_seen>>

\* a pool whose shutdown does not wait
shutdown_nowait == TRUE

\* executor.shutdown(wait=True) returns: every thread of the pool has ended,
\* which it does when the work queue is empty
shutdown_wait ==
    /\ \A w \in Workers : pc[w] = "idle"
    /\ \A i \in Creds : futures[i] # "pending"

\* the end of the with block
Shutdown ==
    /\ Running
    /\ main_pc = "shutdown"
    /\ shutdown_wait
    /\ main_pc' = "stats"
    /\ UNCHANGED <<config_vars, used, next_submit, yielded, reported, futures,
                   stop_event, exit_vars, pc, cur, local,
                   seen, counter, url_vars, hist, ban_seen>>

\* the finally block: print(counter)
ShowStats ==
    /\ Running
    /\ main_pc = "stats"
    /\ reported' = TRUE
    /\ main_pc' = "done"
    /\ UNCHANGED <<config_vars, used, next_submit, yielded, futures, stop_event,
                   exit_vars, pc, cur, local, seen,
                   counter, url_vars, hist, ban_seen>>

(***************************************************************************)
(* The worker threads: check_with_stop and check_account.                  *)
(***************************************************************************)
ErrSink == <<"[Errno", "2]", "No", "such", "file", "or", "directory">>

\* a queue that hands out its first item whatever became of it
FirstSubmitted == CHOOSE i \in Creds : i = 1

\* the first work item of the queue
NextTask ==
    CHOOSE i \in Creds :
        futures[i] = "pending" /\ \A j \in 1..(i - 1) : futures[j] # "pending"

\* check_with_stop without its test of the flag
check_without_stop(stop) == TRUE

\* "if stop_event.is_set(): return" of check_with_stop
check_with_stop_runs(stop) == ~stop

\* check_account returns (or an exception leaves it and check_with_stop
\* swallows it): the worker thread is free again
Return(w, c, h, u) ==
    /\ counter' = c
    /\ hist' = [hist EXCEPT ![cur[w]] = [h EXCEPT !.returned = TRUE]]
    /\ futures' = [futures EXCEPT ![cur[w]] = "done"]
    /\ pc' = [pc EXCEPT ![w] = "idle"]
    /\ cur' = [cur EXCEPT ![w] = 0]
    /\ local' = [local EXCEPT ![w] = NoLocals]
    /\ used' = u

\* a "continue" that counts no retry
ContinueUncounted(w, c, h, u) ==
    /\ FaultAllowed
    /\ counter' = c
    /\ hist' = [hist EXCEPT ![cur[w]] = h]
    /\ local' = [local EXCEPT ![w] = [@ EXCEPT !.retry_count = @ + 1, !.attempt = 0,
                                                  !.last_error = NoException,
                                                  !.proxy_data = NoProxy,
                                                  !.call = NoArguments]]
    /\ pc' = [pc EXCEPT ![w] = "loop"]
    /\ used' = [u EXCEPT !.faults = @ + 1]
    /\ UNCHANGED <<futures, cur>>

\* "counter.increment('retry'); time.sleep(retry_delay); continue"
Retry(w, c, h, u) ==
    /\ FaultAllowed
    /\ counter' = increment(c, "retry")
    /\ hist' = [hist EXCEPT ![cur[w]] = Noted(h, "retry")]
    /\ local' = [local EXCEPT ![w] = [@ EXCEPT !.retry_count = @ + 1, !.attempt = 0,
                                                  !.last_error = NoException,
                                                  !.proxy_data = NoProxy,
                                                  !.call = NoArguments]]
    /\ pc' = [pc EXCEPT ![w] = "loop"]
    /\ used' = [u EXCEPT !.faults = @ + 1]
    /\ UNCHANGED <<futures, cur>>

\* a terminal tally was made inside the try block of an attempt (counter c,
\* history h) and save_result is called; when it raises, the
\* "except Exception" of the attempt runs
Conclude(w, c, h, sink_ok) ==
    LET h1 == Saved(h, local[w].password)
        h2 == [h1 EXCEPT !.sink_failed = TRUE]
        u1 == [used EXCEPT !.sink_fails = @ + 1]
    IN IF sink_ok THEN Return(w, c, h1, used)
       ELSE /\ SinkFailAllowed
            /\ IF local[w].retry_count < max_retries - 1
               THEN Retry(w, c, h2, u1)
               ELSE Return(w, increment(c, "fail"),
                           Saved([Noted(h2, "fail") EXCEPT !.reason = ErrSink],
                                 local[w].password),
                           u1)

\* a pool thread takes a work item whose future was not cancelled and
\* check_with_stop finds the flag set
CheckWithStopDrop(w) ==
    /\ Running
    /\ pc[w] = "idle"
    /\ \E i \in Creds : futures[i] = "pending"
    /\ ~check_with_stop_runs(stop_event)
    /\ futures' = [futures EXCEPT ![NextTask] = "done"]
    /\ UNCHANGED <<config_vars, used, main_vars, stop_event, exit_vars, pc, cur,
                   local, seen, counter, url_vars, hist,
                   ban_seen>>

\* a pool thread takes a work item, check_with_stop calls check_account, and
\* check_account checks the password format
CheckAccountStart(w) ==
    /\ Running
    /\ pc[w] = "idle"
    /\ \E i \in Creds : futures[i] = "pending"
    /\ check_with_stop_runs(stop_event)
    /\ LET i == NextTask
           fmt == validate_password_format(combos[i])
           h == [hist[i] EXCEPT !.started = TRUE, !.invoked = @ + 1,
                                !.after_stop = stop_event,
                                !.after_ban = ban_seen]
       IN IF ~fmt.is_valid
          THEN \E sink_ok \in BOOLEAN :
                  /\ sink_ok \/ SinkFailAllowed
                  /\ counter' = increment(counter, "invalid")
                  /\ hist' = [hist EXCEPT ![i] =
                                 [Saved(Noted(h, "invalid"), combos[i])
                                     EXCEPT !.reason = fmt.error, !.returned = TRUE]]
                  /\ futures' = [futures EXCEPT ![i] = "done"]
                  /\ used' = IF sink_ok THEN used
                             ELSE [used EXCEPT !.sink_fails = @ + 1]
                  /\ UNCHANGED <<pc, cur, local>>
          ELSE /\ futures' = [futures EXCEPT ![i] = "running"]
               /\ hist' = [hist EXCEPT ![i] = h]
               /\ pc' = [pc EXCEPT ![w] = "loop"]
               /\ cur' = [cur EXCEPT ![w] = i]
               /\ local' = [local EXCEPT ![w] =
                                [NoLocals EXCEPT !.password = fmt.password]]
               /\ UNCHANGED <<counter, used>>
    /\ seen' = [seen EXCEPT ![w] = NothingSeen]
    /\ UNCHANGED <<config_vars, main_vars, stop_event, exit_vars, url_vars, ban_seen>>

\* the head of a loop iteration: try_with_new_proxy (get_next_proxy)
AcquireProxy(w) ==
    /\ Running
    /\ pc[w] = "loop"
    /\ local[w].retry_count < max_retries
    /\ LET i == cur[w]
           h == [hist[i] EXCEPT !.attempts = local[w].retry_count + 1,
                                !.retry_after_stop =
                                    @ \/ (stop_event /\ local[w].retry_count > 0),
                                !.late = @ \/ Tallied(hist[i])]
       IN \E proxy_data \in env.proxies \cup {NoProxy} :
             IF proxy_data # NoProxy
             THEN /\ pc' = [pc EXCEPT ![w] = "request"]
                  /\ hist' = [hist EXCEPT ![i] =
                                 [h EXCEPT !.proxy = TRUE,
                                           !.proxy_calls = @ + 1,
                                           !.used = @ \cup {proxy_data.url},
                                           !.reused = @ \/ proxy_data.url \in h.used]]
                  \* payload = {"username", "password", "proxy": proxy_data}
                  /\ local' = [local EXCEPT ![w] =
                                   [@ EXCEPT !.proxy_data = proxy_data,
                                             !.call = [username |-> i,
                                                       password |-> local[w].password,
                                                       proxy |-> proxy_data]]]
                  /\ UNCHANGED <<counter, used, futures, cur>>
             ELSE Retry(w, counter,
                        [h EXCEPT !.transients = @ + 1, !.proxy_calls = @ + 1], used)
    /\ seen' = [seen EXCEPT ![w] = NothingSeen]
    /\ UNCHANGED <<config_vars, main_vars, stop_event, exit_vars, url_vars, ban_seen>>

\* the loop ran out: "Max retries exceeded"
MaxRetriesExceeded(w) ==
    /\ Running
    /\ pc[w] = "loop"
    /\ local[w].retry_count = max_retries
    /\ \E sink_ok \in BOOLEAN :
          /\ sink_ok \/ SinkFailAllowed
          /\ Return(w, increment(counter, "fail"),
                    Saved([Noted(hist[cur[w]], "fail") EXCEPT !.reason = ReasonMaxRetries],
                          local[w].password),
                    IF sink_ok THEN used ELSE [used EXCEPT !.sink_fails = @ + 1])
    /\ UNCHANGED <<config_vars, main_vars, stop_event, exit_vars, url_vars, ban_seen,
                   seen>>

\* what _switch_server can do in this state of the run
SwitchResults(need) ==
    IF need
    THEN {sw \in SwitchOutcomes(base_url, saved_url) :
             sw.base_url # base_url => SwitchAllowed}
    ELSE {NoCall @@ [switched |-> FALSE, base_url |-> base_url,
                     saved_url |-> saved_url]}

\* one HTTP exchange of the client call of the attempt and, when the call is
\* over with it, the rest of the loop iteration of check_account
HttpExchange(w) ==
    /\ Running
    /\ pc[w] = "request"
    /\ \E x \in env.exchanges :
        \E sw \in SwitchResults(NeedsSwitch[check_info, x]) :
            \E i \in {cur[w]} :
            \E l \in {local[w]} :
            \E sent \in {payload(l.call)} :
            \E t \in {AttemptTable[check_info, l.call.password, l.attempt,
                                   l.last_error, x, sw.switched]} :
            \E r \in {t.call} :
            \E o \in {IF l.retry_count < max_retries - 1 THEN t.earlier ELSE t.last} :
            \E h \in {[hist[i] EXCEPT !.request = TRUE,
                                      !.auth_failure =
                                          IF AuthFailureMessage[check_info, x] # <<>>
                                          THEN AuthFailureMessage[check_info, x]
                                          ELSE @,
                                      !.validate_sent = @ \/ ~check_info,
                                      !.login_sent = @ \/ check_info,
                                      !.validate_ok =
                                          @ \/ /\ ~check_info
                                               /\ r.next = "done"
                                               /\ ~r.raised
                                               /\ r.response.success,
                                      \* "password = modified_password" of the
                                      \* client call
                                      !.sent_password = sent.password,
                                      !.strayed =
                                          @ \/ sent # payload([username |-> i,
                                                              password |-> l.password,
                                                              proxy |-> l.proxy_data]),
                                      !.late = @ \/ Tallied(hist[i]),
                                      !.transients =
                                          IF r.next = "done" /\ t.earlier.kind = "retry"
                                          THEN @ + 1 ELSE @]} :
            \E u \in {IF sw.base_url # base_url
                      THEN [used EXCEPT !.switches = @ + 1] ELSE used} :
               /\ base_url' = sw.base_url
               /\ saved_url' = sw.saved_url
               /\ seen' = [seen EXCEPT ![w] =
                              [marker |-> HasQuotaMarker[x],
                               failover |-> NeedsSwitch[check_info, x],
                               switch |-> sw,
                               fault |-> FaultResponse[check_info, x],
                               transport |-> TransportFailure[x],
                               contested |-> Contested[check_info, x],
                               failovers |->
                                   seen[w].failovers
                                       + (IF NeedsSwitch[check_info, x] THEN 1 ELSE 0)]]
               /\ IF r.next # "done"
                  THEN /\ RepeatAllowed
                       /\ local' = [local EXCEPT ![w] =
                                        [@ EXCEPT !.attempt = r.attempt,
                                                  !.last_error = r.last_error,
                                                  !.call =
                                                      IF r.next = "recurse"
                                                      THEN recursive_call(check_info, @)
                                                      ELSE @]]
                       /\ hist' = [hist EXCEPT ![i] = h]
                       /\ used' = [u EXCEPT !.repeats = @ + 1]
                       /\ ban_seen' = ban_seen
                       /\ UNCHANGED <<counter, pc, cur, futures>>
                  ELSE IF o.kind = "retry"
                  THEN /\ Retry(w, counter, h, u)
                       /\ ban_seen' = ban_seen
                  ELSE IF o.kind = "ban"
                  THEN \* handle_ban: counter.increment("ban"), then the prints
                       /\ counter' = increment(counter, "ban")
                       /\ hist' = [hist EXCEPT ![i] =
                                      [Noted(h, "ban") EXCEPT !.banned = @ + 1,
                                                              !.reason = o.reason]]
                       /\ pc' = [pc EXCEPT ![w] = "ban"]
                       /\ ban_seen' = TRUE
                       /\ used' = u
                       /\ UNCHANGED <<cur, local, futures>>
                  ELSE IF o.kind = "fail"
                  THEN /\ \E sink_ok \in BOOLEAN :
                            Conclude(w, increment(counter, "fail"),
                                     [Noted(h, "fail") EXCEPT !.reason = o.reason],
                                     sink_ok)
                       /\ ban_seen' = ban_seen
                  ELSE /\ \E sink_ok \in BOOLEAN :
                            Conclude(w,
                                     increment(IF o.is_banned
                                               THEN increment(counter, "ban")
                                               ELSE counter, "hit"),
                                     Noted(IF o.is_banned THEN Noted(h, "ban") ELSE h,
                                           "hit"),
                                     sink_ok)
                       /\ ban_seen' = ban_seen
    /\ UNCHANGED <<config_vars, main_vars, stop_event, exit_vars>>

\* the end of handle_ban: os._exit(1)
HandleBanExit(w) ==
    /\ Running
    /\ pc[w] = "ban"
    /\ exited' = TRUE
    /\ exit_code' = 1
    /\ UNCHANGED <<config_vars, used, main_vars, futures, stop_event, pc, cur,
                   local, seen, counter, url_vars, hist,
                   ban_seen>>

Next ==
    \/ Interrupt
    \/ Submit
    \/ SubmitEnd
    \/ AsCompleted
    \/ AsCompletedEnd
    \/ Shutdown
    \/ ShowStats
    \/ \E w \in Workers : CheckWithStopDrop(w)
    \/ \E w \in Workers : CheckAccountStart(w)
    \/ \E w \in Workers : AcquireProxy(w)
    \/ \E w \in Workers : MaxRetriesExceeded(w)
    \/ \E w \in Workers : HttpExchange(w)
    \/ \E w \in Workers : HandleBanExit(w)

Init == InitPool \/ InitClient \/ InitDeep \/ InitProxies

Spec == Init /\ [][Next]_vars

SpecDeep == InitDeep /\ [][Next]_vars

(***************************************************************************)
(* The client's endpoints on their own: calls of _switch_server, one after *)
(* the other, each with the answers the network gives it.  seen keeps the  *)
(* whole call: the endpoint and the persisted one it started at, the       *)
(* answers, its result, and what the caller _make_request_with_retry does  *)
(* with the result: it calls _switch_server when the response to its       *)
(* request is the page of a suspended service.                             *)
(***************************************************************************)
SuspendedPage == [kind |-> "response", body |-> "suspended", msg |-> <<>>]

\* the first iteration of _make_request_with_retry on that page, by what
\* _switch_server returned
SuspendedCaller ==
    [switched \in BOOLEAN |->
        make_request_with_retry(0, NoException, SuspendedPage, switched)] @@ <<>>

InitRegistry ==
    /\ combos = <<>>
    /\ thread_count = 1
    /\ env = [faults |-> 0, sink_fails |-> 0, repeats |-> 0, switches |-> 0,
              exchanges |-> {}, proxies |-> {}]
    /\ file = NoFile
    /\ InitCommon

SwitchServer(w) ==
    /\ Running
    /\ pc[w] = "idle"
    /\ \E call \in SwitchTable[<<base_url, saved_url>>] :
          /\ base_url' = call.base_url
          /\ saved_url' = call.saved_url
          /\ seen' = [seen EXCEPT ![w] =
                         [marker |-> FALSE, failover |-> TRUE, fault |-> FALSE,
                          failovers |-> 0, transport |-> FALSE, contested |-> FALSE,
                          switch |-> call @@
                              \* the call before this one left an endpoint
                              \* that answered its probe
                              [after_healthy |->
                                  /\ seen[w].switch.called
                                  /\ seen[w].switch.ping[base_url] = "pong",
                               \* "if self._switch_server(): continue" and
                               \* the raise after it
                               caller |-> SuspendedCaller[call.switched]]]]
    /\ UNCHANGED <<config_vars, used, main_vars, futures, stop_event, exit_vars, pc,
                   cur, local, counter, hist, ban_seen>>

NextRegistry == \E w \in Workers : SwitchServer(w)

SpecRegistry == InitRegistry /\ [][NextRegistry]_vars

(***************************************************************************)
(* Concurrent failovers: several threads call _switch_server of the one    *)
(* client.  Every probe is a request of its own, so that the calls         *)
(* interleave probe by probe; each probe gets the answer the network gives *)
(* at that moment.                                                         *)
(***************************************************************************)
InitFailover ==
    /\ combos = <<>>
    /\ thread_count \in 1..MaxThreads
    /\ env = [faults |-> 0, sink_fails |-> 0, repeats |-> 0, switches |-> 0,
              exchanges |-> {}, proxies |-> {}, calls |-> MaxCalls]
    /\ file = NoFile
    /\ InitCommon

\* "return False" and "return True" of _switch_server
SwitchReturn(w, result, answered) ==
    /\ pc' = [pc EXCEPT ![w] = "idle"]
    /\ local' = [local EXCEPT ![w] = [@ EXCEPT !.probe = NoProbe]]
    /\ seen' = [seen EXCEPT ![w] =
                   [@ EXCEPT !.healthy = @ \cup answered,
                             !.switched = @ \/ result]]

\* the loop of the call goes on
SwitchGoOn(w, probe, answered) ==
    /\ pc' = [pc EXCEPT ![w] = "switch"]
    /\ local' = [local EXCEPT ![w] = [@ EXCEPT !.probe = probe]]
    /\ seen' = [seen EXCEPT ![w] = [@ EXCEPT !.healthy = @ \cup answered]]

\* "if self._test_server(self.base_url): return False"
SwitchBegin(w) ==
    /\ Running
    /\ pc[w] = "idle"
    /\ used.calls < env.calls
    /\ used' = [used EXCEPT !.calls = @ + 1]
    /\ \E ping \in PingResults :
          IF test_server(ping)
          THEN SwitchReturn(w, FALSE, {base_url})
          ELSE SwitchGoOn(w, [NoProbe EXCEPT !.stage = "backups", !.k = 1], {})
    /\ UNCHANGED <<config_vars, main_vars, futures, stop_event, exit_vars, cur,
                   counter, url_vars, hist, ban_seen>>

\* one iteration of "for server in self.BACKUP_SERVERS"
ProbeBackup(w) ==
    /\ Running
    /\ pc[w] = "switch"
    /\ local[w].probe.stage = "backups"
    /\ LET probe == local[w].probe
           server == BACKUP_SERVERS[probe.k]
           next == IF probe.k < Len(BACKUP_SERVERS)
                   THEN [probe EXCEPT !.k = @ + 1]
                   ELSE [probe EXCEPT !.stage = "fetch", !.k = 0]
       IN IF server # base_url
          THEN \E ping \in PingResults :
                  IF test_server(ping)
                  THEN SwitchGoOn(w, [probe EXCEPT !.stage = "update",
                                                  !.target = server], {server})
                  ELSE SwitchGoOn(w, next, {})
          ELSE SwitchGoOn(w, next, {})
    /\ UNCHANGED <<config_vars, used, main_vars, futures, stop_event, exit_vars,
                   cur, counter, url_vars, hist, ban_seen>>

\* "servers = self._fetch_available_servers()"
FetchServers(w) ==
    /\ Running
    /\ pc[w] = "switch"
    /\ local[w].probe.stage = "fetch"
    /\ \E status \in StatusLists :
          LET servers == fetch_available_servers(status)
          IN /\ IF servers = <<>>
                THEN /\ pc' = [pc EXCEPT ![w] = "idle"]
                     /\ local' = [local EXCEPT ![w] = [@ EXCEPT !.probe = NoProbe]]
                ELSE /\ pc' = pc
                     /\ local' = [local EXCEPT ![w] =
                                      [@ EXCEPT !.probe =
                                          [@ EXCEPT !.stage = "dynamic", !.k = 1,
                                                    !.servers = servers]]]
             /\ seen' = [seen EXCEPT ![w] =
                            [@ EXCEPT !.fetched =
                                @ \cup {servers[j].name : j \in 1..Len(servers)}]]
    /\ UNCHANGED <<config_vars, used, main_vars, futures, stop_event, exit_vars,
                   cur, counter, url_vars, hist, ban_seen>>

\* one iteration of "for server in servers"
ProbeDynamic(w) ==
    /\ Running
    /\ pc[w] = "switch"
    /\ local[w].probe.stage = "dynamic"
    /\ LET probe == local[w].probe
           name == probe.servers[probe.k].name
           last == probe.k = Len(probe.servers)
       IN IF name # base_url /\ ~InBackups(name)
          THEN \E ping \in PingResults :
                  IF test_server(ping)
                  THEN SwitchGoOn(w, [probe EXCEPT !.stage = "update",
                                                  !.target = name], {name})
                  ELSE IF last THEN SwitchReturn(w, FALSE, {})
                  ELSE SwitchGoOn(w, [probe EXCEPT !.k = @ + 1], {})
          ELSE IF last THEN SwitchReturn(w, FALSE, {})
          ELSE SwitchGoOn(w, [probe EXCEPT !.k = @ + 1], {})
    /\ UNCHANGED <<config_vars, used, main_vars, futures, stop_event, exit_vars,
                   cur, counter, url_vars, hist, ban_seen>>

\* "self._update_base_url(server); return True"
UpdateBaseUrl(w) ==
    /\ Running
    /\ pc[w] = "switch"
    /\ local[w].probe.stage = "update"
    /\ \E config_ok \in BOOLEAN :
          LET u == update_base_url(base_url, saved_url, local[w].probe.target,
                                   config_ok)
          IN /\ base_url' = u.base_url
             /\ saved_url' = u.saved_url
    /\ SwitchReturn(w, TRUE, {})
    /\ UNCHANGED <<config_vars, used, main_vars, futures, stop_event, exit_vars,
                   cur, counter, hist, ban_seen>>

NextFailover ==
    \/ \E w \in Workers : SwitchBegin(w)
    \/ \E w \in Workers : ProbeBackup(w)
    \/ \E w \in Workers : FetchServers(w)
    \/ \E w \in Workers : ProbeDynamic(w)
    \/ \E w \in Workers : UpdateBaseUrl(w)

SpecFailover == InitFailover /\ [][NextFailover]_vars

(***************************************************************************)
(* get_next_proxy on its own: the threads of the pool call it with a proxy *)
(* file that exists and holds lines.  The test of the global proxy_list,   *)
(* the read of the file with the assignment, and the "with proxy_lock"     *)
(* block are steps of their own.                                           *)
(***************************************************************************)
ProxyFiles == {{"proxy-a"}, {"proxy-a", "proxy-b"}}

InitProxyLoad ==
    /\ combos = <<>>
    /\ thread_count \in 1..MaxThreads
    /\ \E lines \in ProxyFiles :
          env = [faults |-> 0, sink_fails |-> 0, repeats |-> 0, switches |-> 0,
                 exchanges |-> {}, proxies |-> {}, calls |-> MaxCalls,
                 proxy_file |-> lines]
    /\ file = NoFile
    /\ InitCommon

\* proxy_lock can be acquired: no thread is inside the with block
proxy_lock_acquire(w) == \A v \in Workers : pc[v] # "proxy_locked"

\* "if not proxy_list and config['proxy']['enabled'] and ...": the test, made
\* without the lock
ProxyListTest(w) ==
    /\ Running
    /\ pc[w] = "idle"
    /\ used.calls < env.calls
    /\ used' = [used EXCEPT !.calls = @ + 1]
    /\ pc' = [pc EXCEPT ![w] = IF proxy_list.lines = {} THEN "proxy_open"
                               ELSE "proxy_test"]
    /\ UNCHANGED <<config_vars, main_vars, futures, stop_event, exit_vars, cur,
                   local, seen, counter, url_vars, hist, ban_seen>>

\* "with open(...) as f: proxy_list = [line.strip() for line in f ...]"
ProxyListLoad(w) ==
    /\ Running
    /\ pc[w] = "proxy_open"
    /\ proxy_list' = [lines |-> env.proxy_file,
                      loaders |-> proxy_list.loaders \cup {w}]
    /\ pc' = [pc EXCEPT ![w] = "proxy_test"]
    /\ UNCHANGED <<combos, check_info, thread_count, env, file, used, main_vars,
                   futures, stop_event, exit_vars, cur, local, seen, counter,
                   url_vars, hist, ban_seen>>

\* "if proxy_list: with proxy_lock:"
ProxyLockEnter(w) ==
    /\ Running
    /\ pc[w] = "proxy_test"
    /\ proxy_list.lines # {}
    /\ proxy_lock_acquire(w)
    /\ pc' = [pc EXCEPT ![w] = "proxy_locked"]
    /\ UNCHANGED <<config_vars, used, main_vars, futures, stop_event, exit_vars,
                   cur, local, seen, counter, url_vars, hist, ban_seen>>

\* "proxy = random.choice(proxy_list) ... return proxy_data"
ProxyReturn(w) ==
    /\ Running
    /\ pc[w] = "proxy_locked"
    /\ \E proxy_data \in get_next_proxy(proxy_list.lines, "http", "", "") :
          local' = [local EXCEPT ![w] = [@ EXCEPT !.proxy_data = proxy_data]]
    /\ pc' = [pc EXCEPT ![w] = "idle"]
    /\ UNCHANGED <<config_vars, used, main_vars, futures, stop_event, exit_vars,
                   cur, seen, counter, url_vars, hist, ban_seen>>

NextProxyLoad ==
    \/ \E w \in Workers : ProxyListTest(w)
    \/ \E w \in Workers : ProxyListLoad(w)
    \/ \E w \in Workers : ProxyLockEnter(w)
    \/ \E w \in Workers : ProxyReturn(w)

SpecProxyLoad == InitProxyLoad /\ [][NextProxyLoad]_vars

(***************************************************************************)
(* One client call on its own: validate_account or login from its first    *)
(* request to its return or raise.  Nothing in the two methods counts the  *)
(* calls they make of themselves, so nothing is counted here; the network  *)
(* answers every request and every probe as it likes.                      *)
(***************************************************************************)
InitRecursion ==
    /\ combos = << <<"1", "a", "b", "a", "b", "a">> >>
    /\ thread_count = 1
    /\ env = [faults |-> 0, sink_fails |-> 0, repeats |-> 0, switches |-> 0,
              exchanges |-> Exchanges, proxies |-> OneProxy]
    /\ file = NoFile
    /\ InitCommon

\* one HTTP exchange of the client call; when the call is over with it the
\* thread has the result of the call
ClientExchange(w) ==
    /\ Running
    /\ pc[w] = "request"
    /\ \E x \in env.exchanges :
        \E sw \in (IF NeedsSwitch[check_info, x]
                   THEN SwitchOutcomes(base_url, saved_url)
                   ELSE {NoCall @@ [switched |-> FALSE, base_url |-> base_url,
                                    saved_url |-> saved_url]}) :
        \E r \in {AttemptTable[check_info, local[w].call.password, local[w].attempt,
                               local[w].last_error, x, sw.switched].call} :
            /\ base_url' = sw.base_url
            /\ saved_url' = sw.saved_url
            /\ seen' = [seen EXCEPT ![w] =
                           [NothingSeen EXCEPT !.failover = NeedsSwitch[check_info, x],
                                               !.switch = sw]]
            /\ IF r.next # "done"
               THEN /\ local' = [local EXCEPT ![w] =
                                    [@ EXCEPT !.attempt = r.attempt,
                                              !.last_error = r.last_error,
                                              !.call =
                                                  IF r.next = "recurse"
                                                  THEN recursive_call(check_info, @)
                                                  ELSE @]]
                    /\ pc' = pc
               ELSE /\ local' = [local EXCEPT ![w] =
                                    [@ EXCEPT !.attempt = 0,
                                              !.last_error = NoException]]
                    /\ pc' = [pc EXCEPT ![w] = "returned"]
    /\ UNCHANGED <<config_vars, used, main_vars, futures, stop_event, exit_vars, cur,
                   counter, hist, ban_seen>>

NextRecursion ==
    \/ Submit
    \/ \E w \in Workers : CheckAccountStart(w)
    \/ \E w \in Workers : AcquireProxy(w)
    \/ \E w \in Workers : ClientExchange(w)

\* the thread of the call keeps running
SpecRecursion == InitRecursion /\ [][NextRecursion]_vars /\ WF_vars(NextRecursion)

(***************************************************************************)
(* _make_request_with_retry on its own: request_func is called once in     *)
(* every iteration of the loop; the network answers as it likes and        *)
(* _switch_server does what the servers make it do.                        *)
(***************************************************************************)
InitRequest ==
    /\ combos = <<>>
    /\ thread_count = 1
    /\ env = [faults |-> 0, sink_fails |-> 0, repeats |-> 0, switches |-> 0,
              exchanges |-> Exchanges, proxies |-> {}, calls |-> MaxCalls]
    /\ file = NoFile
    /\ InitCommon

\* "last_error = None" and the first "for attempt in range(max_retries)"
RequestBegin(w) ==
    /\ Running
    /\ pc[w] = "idle"
    /\ used.calls < env.calls
    /\ used' = [used EXCEPT !.calls = @ + 1]
    /\ pc' = [pc EXCEPT ![w] = "retry_loop"]
    /\ local' = [local EXCEPT ![w] = NoLocals]
    /\ seen' = [seen EXCEPT ![w] = NothingSeen]
    /\ UNCHANGED <<config_vars, main_vars, futures, stop_event, exit_vars, cur,
                   counter, url_vars, hist, ban_seen>>

\* one iteration of the loop: "response = request_func()" and what follows
RequestAttempt(w) ==
    /\ Running
    /\ pc[w] = "retry_loop"
    /\ \E x \in env.exchanges :
        \E sw \in (IF IsSuspended(x)
                   THEN SwitchOutcomes(base_url, saved_url)
                   ELSE {NoCall @@ [switched |-> FALSE, base_url |-> base_url,
                                    saved_url |-> saved_url]}) :
        \E r \in {make_request_with_retry(local[w].attempt, local[w].last_error,
                                          x, sw.switched)} :
            /\ base_url' = sw.base_url
            /\ saved_url' = sw.saved_url
            /\ local' = [local EXCEPT ![w] = [@ EXCEPT !.attempt = r.attempt,
                                                      !.last_error = r.last_error]]
            /\ seen' = [seen EXCEPT ![w] =
                           [@ EXCEPT !.failover = IsSuspended(x),
                                     !.switch = sw,
                                     !.request =
                                         [requests |-> @.requests + 1,
                                          next |-> IF r.next = "continue" THEN "none"
                                                   ELSE r.next,
                                          exc |-> r.exc,
                                          x |-> IF r.next = "continue" THEN <<>>
                                                ELSE x]]]
            /\ pc' = [pc EXCEPT ![w] = IF r.next = "continue" THEN "retry_loop"
                                       ELSE "idle"]
    /\ UNCHANGED <<config_vars, used, main_vars, futures, stop_event, exit_vars, cur,
                   counter, hist, ban_seen>>

NextRequest ==
    \/ \E w \in Workers : RequestBegin(w)
    \/ \E w \in Workers : RequestAttempt(w)

SpecRequest == InitRequest /\ [][NextRequest]_vars

(***************************************************************************)
(* _test_server on its own: the threads probe servers, and GET /ping       *)
(* brings back whatever it can.                                            *)
(***************************************************************************)
InitProbe ==
    /\ combos = <<>>
    /\ thread_count \in 1..MaxThreads
    /\ env = [faults |-> 0, sink_fails |-> 0, repeats |-> 0, switches |-> 0,
              exchanges |-> {}, proxies |-> {}, calls |-> MaxCalls]
    /\ file = NoFile
    /\ InitCommon

TestServer(w) ==
    /\ Running
    /\ pc[w] = "idle"
    /\ used.calls < env.calls
    /\ used' = [used EXCEPT !.calls = @ + 1]
    /\ \E server_url \in Servers, ping \in PingNames :
          local' = [local EXCEPT ![w] =
                       [@ EXCEPT !.probe = [NoProbe EXCEPT !.target = server_url,
                                                           !.ping = ping,
                                                           !.healthy = test_server(ping)]]]
    /\ UNCHANGED <<config_vars, main_vars, futures, stop_event, exit_vars, pc, cur,
                   seen, counter, url_vars, hist, ban_seen>>

NextProbe == \E w \in Workers : TestServer(w)

SpecProbe == InitProbe /\ [][NextProbe]_vars

(***************************************************************************)
(* ResultCounter on its own: the threads call increment for the            *)
(* credentials; "with self.lock" is entered by one thread at a time, and   *)
(* "self.hits += 1" loads the attribute and stores the sum.                *)
(***************************************************************************)
ResultTypes == {"hit", "fail", "retry", "ban", "invalid"}

\* the attribute an increment call works on
attribute(result_type) ==
    CASE result_type = "hit" -> "hits"
      [] result_type = "fail" -> "fails"
      [] result_type = "retry" -> "retries"
      [] result_type = "ban" -> "bans"
      [] result_type = "invalid" -> "invalid"

RECURSIVE calls_made(_)
\* increment calls made for the first n credentials
calls_made(n) ==
    IF n = 0 THEN 0
    ELSE hist[n].hit + hist[n].fail + hist[n].retry + hist[n].ban + hist[n].invalid
            + calls_made(n - 1)

\* a counter whose lock every thread gets at once
lock_ignored(w) == TRUE

\* self.lock can be acquired: no thread is inside the with block
lock_acquire(w) == \A v \in Workers : pc[v] # "locked"

InitCounter ==
    /\ \E n \in 1..MaxCombos :
          /\ combos \in [1..n -> {<<"1", "a", "b", "a", "b", "a">>}]
          /\ thread_count \in 1..MaxThreads
    /\ env = [faults |-> 0, sink_fails |-> 0, repeats |-> 0, switches |-> 0,
              exchanges |-> {}, proxies |-> {}]
    /\ file = NoFile
    /\ InitCommon

\* a thread calls counter.increment(result_type) for a credential
IncrementCall(w) ==
    /\ Running
    /\ pc[w] = "idle"
    /\ calls_made(Len(combos)) < MaxIncrements
    /\ \E i \in Creds, result_type \in ResultTypes :
          /\ hist' = [hist EXCEPT ![i] = Noted(@, result_type)]
          /\ local' = [local EXCEPT ![w] = [@ EXCEPT !.result_type = result_type]]
    /\ pc' = [pc EXCEPT ![w] = "increment"]
    /\ UNCHANGED <<config_vars, used, main_vars, futures, stop_event, exit_vars, cur,
                   seen, counter, url_vars, ban_seen>>

\* it enters the with block and loads the attribute
IncrementLoad(w) ==
    /\ Running
    /\ pc[w] = "increment"
    /\ lock_acquire(w)
    /\ local' = [local EXCEPT ![w] =
                     [@ EXCEPT !.loaded = counter[attribute(local[w].result_type)]]]
    /\ pc' = [pc EXCEPT ![w] = "locked"]
    /\ UNCHANGED <<config_vars, used, main_vars, futures, stop_event, exit_vars, cur,
                   seen, counter, url_vars, hist, ban_seen>>

\* it stores the sum and leaves the with block
IncrementStore(w) ==
    /\ Running
    /\ pc[w] = "locked"
    /\ counter' = increment([counter EXCEPT ![attribute(local[w].result_type)] =
                                              local[w].loaded],
                            local[w].result_type)
    /\ local' = [local EXCEPT ![w] = NoLocals]
    /\ pc' = [pc EXCEPT ![w] = "idle"]
    /\ UNCHANGED <<config_vars, used, main_vars, futures, stop_event, exit_vars, cur,
                   seen, url_vars, hist, ban_seen>>

NextCounter ==
    \/ \E w \in Workers : IncrementCall(w)
    \/ \E w \in Workers : IncrementLoad(w)
    \/ \E w \in Workers : IncrementStore(w)

SpecCounter == InitCounter /\ [][NextCounter]_vars

(***************************************************************************)
(* The format check on its own: one credential of any password over        *)
(* FormatChars, submitted and started.                                     *)
(***************************************************************************)
FormatChars == {"a", "B", "1", "!"}

InitFormat ==
    /\ \E n \in (MIN_PASSWORD_LEN - 1)..MaxPasswordLen :
          \E p \in [1..n -> FormatChars] : combos = <<p>>
    /\ thread_count = 1
    /\ env = [faults |-> 0, sink_fails |-> 0, repeats |-> 0, switches |-> 0,
              exchanges |-> {}, proxies |-> {}]
    /\ file = NoFile
    /\ InitCommon

NextFormat ==
    \/ Submit
    \/ \E w \in Workers : CheckAccountStart(w)

SpecFormat == InitFormat /\ [][NextFormat]_vars

(***************************************************************************)
(* The format check of check_account for passwords that hold letters       *)
(* outside ASCII.                                                          *)
(***************************************************************************)
UnicodeChars == {"a", "1", "j_caron"}

InitUnicode ==
    /\ \E n \in MIN_PASSWORD_LEN..MaxPasswordLen :
          \E p \in [1..n -> UnicodeChars] : combos = <<p>>
    /\ thread_count = 1
    /\ env = [faults |-> 0, sink_fails |-> 0, repeats |-> 0, switches |-> 0,
              exchanges |-> {}, proxies |-> {}]
    /\ file = NoFile
    /\ InitCommon

SpecUnicode == InitUnicode /\ [][NextFormat]_vars

(***************************************************************************)
(* The classification on its own: one attempt of one credential, answered  *)
(* with a body that holds a quota or key marker.                           *)
(***************************************************************************)
ClassifyExchanges ==
    {x \in Exchanges : x.kind = "response" /\ HasQuotaMarker[x]}

InitClassify ==
    /\ combos \in [1..1 -> {p \in Passwords : validate_password_format(p).is_valid}]
    /\ thread_count = 1
    /\ env = [faults |-> MaxFaults, sink_fails |-> 0, repeats |-> MaxRepeats,
              switches |-> MaxSwitches, exchanges |-> ClassifyExchanges,
              proxies |-> OneProxy]
    /\ file = NoFile
    /\ InitCommon

NextClassify ==
    \/ Submit
    \/ \E w \in Workers : CheckAccountStart(w)
    \/ \E w \in Workers : AcquireProxy(w)
    \/ \E w \in Workers : HttpExchange(w)
    \/ \E w \in Workers : HandleBanExit(w)

SpecClassify == InitClassify /\ [][NextClassify]_vars

(***************************************************************************)
(* load_combo_file on its own: the lines of the file are read one by one.  *)
(* A line is a sequence of one-character strings; " " stands for any       *)
(* white space, the line end included.                                     *)
(***************************************************************************)
LineChars == {"a", ":", " "}

\* str.strip
RECURSIVE lstrip(_)
lstrip(s) == IF s # <<>> /\ Head(s) = " " THEN lstrip(Tail(s)) ELSE s
RECURSIVE rstrip(_)
rstrip(s) ==
    IF s # <<>> /\ s[Len(s)] = " " THEN rstrip(SubSeq(s, 1, Len(s) - 1)) ELSE s
strip(s) == rstrip(lstrip(s))

\* a split at the last ':' of the line
split_last(line) ==
    LET k == CHOOSE j \in 1..Len(line) :
                 line[j] = ":" /\ \A m \in (j + 1)..Len(line) : line[m] # ":"
    IN <<SubSeq(line, 1, k - 1), SubSeq(line, k + 1, Len(line))>>

\* line.split(':', 1) of a line that holds ':'
split_first(line) ==
    LET k == FirstIndex([j \in 1..Len(line) |-> line[j] = ":"])
    IN <<SubSeq(line, 1, k - 1), SubSeq(line, k + 1, Len(line))>>

\* one iteration of "for line in f"
load_line(loaded, raw) ==
    LET line == strip(raw)
    IN IF \E j \in 1..Len(line) : line[j] = ":"
       THEN Append(loaded, <<strip(split_first(line)[1]), strip(split_first(line)[2])>>)
       ELSE loaded

Lines == UNION {[1..n -> LineChars] : n \in 0..MaxLineLen}

InitLoad ==
    /\ combos = <<>>
    /\ thread_count = 1
    /\ env = [faults |-> 0, sink_fails |-> 0, repeats |-> 0, switches |-> 0,
              exchanges |-> {}, proxies |-> {}]
    /\ \E n \in 0..MaxLines :
          \E lines \in [1..n -> Lines] :
             file = [lines |-> lines, next |-> 1, combos |-> <<>>, returned |-> FALSE]
    /\ InitCommon

LoadLine ==
    /\ ~file.returned
    /\ file.next <= Len(file.lines)
    /\ file' = [file EXCEPT !.combos = load_line(@, file.lines[file.next]),
                            !.next = @ + 1]
    /\ UNCHANGED <<combos, check_info, thread_count, env, used, main_vars, futures,
                   stop_event, exit_vars, pc, cur, local, seen, counter, url_vars,
                   hist, ban_seen, proxy_list>>

\* "return combos"
LoadReturn ==
    /\ ~file.returned
    /\ file.next > Len(file.lines)
    /\ file' = [file EXCEPT !.returned = TRUE]
    /\ UNCHANGED <<combos, check_info, thread_count, env, used, main_vars, futures,
                   stop_event, exit_vars, pc, cur, local, seen, counter, url_vars,
                   hist, ban_seen, proxy_list>>

NextLoad == LoadLine \/ LoadReturn

SpecLoad == InitLoad /\ [][NextLoad]_vars

(***************************************************************************)
(* remove_duplicates of combo_editor.py and checker.py: process_with_threads *)
(* splits the lines of the file into chunks, a pool of thread_count threads  *)
(* processes them, the results are collected as the tasks complete, and      *)
(* the lines without their duplicates are written.                           *)
(***************************************************************************)
DedupLines == {line \in Lines : Len(line) < MaxLineLen}

\* "[line.strip() for line in lines if line.strip()]", and
\* process_file_chunk with process_line
process_file_chunk(lines) ==
    LET kept == SelectSeq(lines, LAMBDA line : strip(line) # <<>>)
    IN [k \in 1..Len(kept) |-> strip(kept[k])]

\* "chunk_size = max(1, len(lines) // thread_count)"
chunk_size(n, threads) == IF n \div threads > 1 THEN n \div threads ELSE 1

\* "[lines[i:i + chunk_size] for i in range(0, len(lines), chunk_size)]"
chunks_of(lines, size) ==
    [c \in 1..((Len(lines) + size - 1) \div size) |->
        SubSeq(lines, (c - 1) * size + 1,
               IF c * size < Len(lines) THEN c * size ELSE Len(lines))]

\* list(dict.fromkeys(lines)): the first occurrence of every line, in order
RECURSIVE dict_fromkeys(_)
dict_fromkeys(lines) ==
    IF lines = <<>> THEN <<>>
    ELSE LET front == dict_fromkeys(SubSeq(lines, 1, Len(lines) - 1))
             line == lines[Len(lines)]
         IN IF \E k \in 1..Len(front) : front[k] = line THEN front
            ELSE Append(front, line)

InitDedup ==
    /\ combos = <<>>
    /\ thread_count \in 1..MaxThreads
    /\ env = [faults |-> 0, sink_fails |-> 0, repeats |-> 0, switches |-> 0,
              exchanges |-> {}, proxies |-> {}]
    /\ \E n \in 0..MaxLines :
          \E lines \in [1..n -> DedupLines] :
             file = [lines |-> lines, stage |-> "read", chunks |-> <<>>,
                     completed |-> {}, processed_lines |-> <<>>, output |-> <<>>]
    /\ InitCommon

\* process_with_threads up to the submission of the chunks
SubmitChunks ==
    /\ file.stage = "read"
    /\ LET lines == process_file_chunk(file.lines)
       IN IF lines = <<>>
          THEN file' = [file EXCEPT !.stage = "collected"]
          ELSE file' = [file EXCEPT
                           !.stage = "running",
                           !.chunks = chunks_of(lines,
                                                chunk_size(Len(lines), thread_count))]
    /\ UNCHANGED <<combos, check_info, thread_count, env, used, main_vars, futures,
                   stop_event, exit_vars, pc, cur, local, seen, counter, url_vars,
                   hist, ban_seen, proxy_list>>

\* a task of the pool completes and as_completed yields it:
\* "processed_lines.extend(result)".  The pool starts the tasks in the order
\* of their submission, thread_count of them at a time.
ChunkCompleted ==
    /\ file.stage = "running"
    /\ \E c \in DOMAIN file.chunks \ file.completed :
          /\ Cardinality({b \in 1..(c - 1) : b \notin file.completed}) < thread_count
          /\ file' = [file EXCEPT
                         !.completed = @ \cup {c},
                         !.processed_lines = @ \o process_file_chunk(file.chunks[c]),
                         !.stage = IF file.completed \cup {c} = DOMAIN file.chunks
                                   THEN "collected" ELSE @]
    /\ UNCHANGED <<combos, check_info, thread_count, env, used, main_vars, futures,
                   stop_event, exit_vars, pc, cur, local, seen, counter, url_vars,
                   hist, ban_seen, proxy_list>>

\* "unique_lines = list(dict.fromkeys(lines))" and the write of the file
WriteUnique ==
    /\ file.stage = "collected"
    /\ file' = [file EXCEPT !.stage = "written",
                            !.output = dict_fromkeys(file.processed_lines)]
    /\ UNCHANGED <<combos, check_info, thread_count, env, used, main_vars, futures,
                   stop_event, exit_vars, pc, cur, local, seen, counter, url_vars,
                   hist, ban_seen, proxy_list>>

NextDedup == SubmitChunks \/ ChunkCompleted \/ WriteUnique

SpecDedup == InitDedup /\ [][NextDedup]_vars

(***************************************************************************)
(* Properties.                                                             *)
(***************************************************************************)
\* the format policy, as the specification words it
FailsPolicy(p) ==
    \/ Len(p) < 6
    \/ \E i \in 1..Len(p) : p[i] \notin LowerChars \cup UpperChars \cup DigitChars
    \/ ~ \E i \in 1..Len(p) : p[i] \in DigitChars

\* C1: the step that starts a credential whose password fails the format
\* policy increments the invalid counter by one and no other counter, ends the
\* credential, and neither then nor later is a proxy acquired or a request
\* sent for it.
C1_InvalidOutcome ==
    [][\A i \in Creds :
          FailsPolicy(combos[i]) =>
             /\ (~hist[i].started /\ hist'[i].started) =>
                   /\ counter' = [counter EXCEPT !.invalid = @ + 1]
                   /\ hist'[i].returned /\ hist'[i].invalid = 1
                   /\ ~hist'[i].proxy /\ ~hist'[i].request
                   /\ futures'[i] = "done"
             /\ hist[i].returned => hist'[i] = hist[i]]_vars

C1_Witness ==
    \E i \in Creds :
        /\ FailsPolicy(combos[i])
        /\ hist[i].returned /\ hist[i].invalid = 1
        /\ counter.invalid >= 1 /\ counter.fails = 0 /\ counter.hits = 0
        /\ hist[i].reason = ErrNoNumber

\* C2: a ban is handled by one worker only, and no credential that a worker
\* starts after an attempt was classified as a ban is tallied as a hit.
C2_CancelOnceNoLaterHit ==
    /\ Cardinality({w \in Workers : pc[w] = "ban"}) <= 1
    /\ \A i \in Creds : hist[i].after_ban => hist[i].hit = 0

\* C3: after an exchange whose body holds a quota or key marker the worker is
\* in handle_ban, and the exchange made the client call no failover.
C3_MarkerBansAtOnce ==
    \A w \in Workers : seen[w].marker => pc[w] = "ban" /\ ~seen[w].failover

C5_BudgetExhausted ==
    \A i \in Creds :
        hist[i].returned /\ hist[i].transients = max_retries =>
            /\ hist[i].fail = 1
            /\ hist[i].retry = max_retries
            /\ hist[i].reason = ReasonMaxRetries

\* C6: a credential for which a success response was tallied has returned
\* with one hit tally, no fail tally, and as many retry tallies as iterations
\* that ended in a retryable fault.
C6_HitAfterTransients ==
    \A i \in Creds :
        hist[i].hit > 0 =>
            /\ hist[i].returned
            /\ hist[i].hit = 1 /\ hist[i].fail = 0
            /\ hist[i].retry = hist[i].transients

\* C7: when the worker is done with a credential (check_account returned, or
\* handle_ban ended the process) the credential has one terminal outcome and
\* save_result was called once for it.
C7_OneOutcomeSavedOnce ==
    \A i \in Creds :
        hist[i].returned \/ (exited /\ hist[i].banned > 0) =>
            /\ hist[i].hit + hist[i].fail + hist[i].invalid + hist[i].banned = 1
            /\ hist[i].saves = 1

\* C8: no credential has more than max_retries iterations, and none has a
\* proxy acquired or a request sent after a terminal outcome was tallied.
C8_BoundedNoLateActivity ==
    \A i \in Creds : hist[i].attempts <= max_retries /\ ~hist[i].late

C10_InterruptDrains ==
    /\ \A i \in Creds :
          /\ hist[i].started => ~hist[i].after_stop
          /\ ~hist[i].started =>
                /\ ~hist[i].proxy /\ ~hist[i].request
                /\ ~Tallied(hist[i]) /\ hist[i].saves = 0
    /\ reported =>
          /\ \A w \in Workers : pc[w] = "idle"
          /\ \A i \in Creds : futures[i] \notin {"pending", "running"}
          /\ \A i \in Creds : hist[i].started => hist[i].returned /\ Tallied(hist[i])

\* the flag was set during the attempt of one credential, which completed,
\* while another was still queued and was dropped
C10_Witness ==
    /\ stop_event /\ reported
    /\ \E i, j \in Creds :
          /\ hist[i].interrupted /\ hist[i].returned /\ hist[i].hit = 1
          /\ ~hist[j].started /\ futures[j] \in {"done", "cancelled"}

\* the endpoint the specification expects a call to make active: the first
\* static backup that answers its probe, the current endpoint apart, or else
\* the fetched server of highest uptime that does, the current endpoint and
\* the static backups apart
ExpectedEndpoint(call) ==
    LET base == call.at[1]
        status == call.status
        backs == {k \in 1..Len(BACKUP_SERVERS) :
                     /\ BACKUP_SERVERS[k] # base
                     /\ call.ping[BACKUP_SERVERS[k]] = "pong"}
        dyn == {k \in 1..Len(status) :
                   /\ status[k].uptime_percentage > 0
                   /\ status[k].name # base
                   /\ ~InBackups(status[k].name)
                   /\ call.ping[status[k].name] = "pong"}
    IN IF backs # {}
       THEN BACKUP_SERVERS[CHOOSE k \in backs : \A j \in backs : k <= j]
       ELSE IF dyn # {}
       THEN status[CHOOSE k \in dyn :
                      \A j \in dyn : status[j].uptime_percentage
                                         <= status[k].uptime_percentage].name
       ELSE NoTarget

\* C11: after a _switch_server call that found the current endpoint failing
\* its probe and some candidate answering, the active endpoint is the first
\* answering candidate in the order static backups, then fetched servers by
\* descending uptime.
C11_FirstHealthyBecomesActive ==
    \A w \in Workers :
        LET call == seen[w].switch
        IN /\ call.called
           /\ call.ping[call.at[1]] # "pong"
           /\ ExpectedEndpoint(call) # NoTarget
           => base_url = ExpectedEndpoint(call)

\* C12: when a _switch_server call left an endpoint that answers its probe
\* and the next call finds it answering still, that call returns False,
\* leaves the endpoint and the persisted one as they are, probes the current
\* endpoint only and fetches no status list.
C12_SecondFailoverIsNoOp ==
    [][\A w \in Workers :
          /\ seen[w].switch.called
          /\ seen[w].switch.ping[base_url] = "pong"
          /\ seen'[w].switch.ping[base_url] = "pong"
          => /\ ~seen'[w].switch.switched
             /\ base_url' = base_url
             /\ saved_url' = saved_url
             /\ seen'[w].switch.probed = <<base_url>>
             /\ ~seen'[w].switch.fetched]_vars

\* a call switched to a backup, and the call after it was a no-op there
C12_Witness ==
    \E w \in Workers :
        LET call == seen[w].switch
        IN /\ call.called
           /\ call.after_healthy
           /\ call.at[1] = base_url /\ base_url # PRIMARY
           /\ ~call.switched
           /\ call.probed = <<base_url>>

\* C13: a client call makes at most one _switch_server call, and after a
\* response that was a fault of the endpoint or unreadable it has made one.
C13_OneFailoverPerCall ==
    \A w \in Workers :
        /\ seen[w].failovers <= 1
        /\ seen[w].fault => seen[w].failovers = 1

\* C14: a login request is sent for a credential only after a validate call
\* for it succeeded.
C14_LoginOnlyAfterValidate ==
    \A i \in Creds : hist[i].login_sent => hist[i].validate_ok

\* C15: a credential for which the service reported bad credentials has
\* returned with one fail tally, no hit tally, the message of the service as
\* its reason, and no retry tally beyond those of its transient attempts.
C15_AuthFailureFailsAtOnce ==
    \A i \in Creds :
        hist[i].auth_failure # <<>> =>
            /\ hist[i].returned
            /\ hist[i].fail = 1 /\ hist[i].hit = 0
            /\ hist[i].reason = hist[i].auth_failure
            /\ hist[i].retry = hist[i].transients

\* C16: a started credential whose password passes the format policy is not
\* rejected, and the password check_account goes on with is the input with
\* its first alphabetic character upper-cased and nothing else changed when
\* the input has a letter and no upper-case letter, and the input itself
\* otherwise.
C16_FirstAlphaCapitalized ==
    \A i \in Creds :
        hist[i].started /\ ~FailsPolicy(combos[i]) =>
            /\ hist[i].invalid = 0
            /\ hist[i].returned \/ \E w \in Workers : cur[w] = i
            /\ \A w \in Workers :
                  cur[w] = i =>
                     LET p == combos[i]
                         q == local[w].password
                         letters == {k \in 1..Len(p) : p[k] \in LowerChars \cup UpperChars}
                     IN IF letters # {} /\ \A k \in letters : p[k] \notin UpperChars
                        THEN LET first == CHOOSE k \in letters : \A j \in letters : k <= j
                             IN /\ Len(q) = Len(p)
                                /\ q[first] \in UpperChars
                                /\ <<q[first]>> = upper(p[first])
                                /\ \A k \in 1..Len(p) : k # first => q[k] = p[k]
                        ELSE q = p

\* a password with digits in front and lower-case letters behind them was
\* started and its first letter capitalized
C16_Witness ==
    \E w \in Workers :
        /\ pc[w] = "loop"
        /\ combos[cur[w]] = <<"1", "1", "a", "a", "1", "a">>
        /\ local[w].password = <<"1", "1", "A", "a", "1", "a">>

\* C17: for a credential whose password passes the format check, every
\* request carries the normalized password and save_result is handed the
\* normalized password; one that has no upper-case letter and got a success
\* response has one hit tally, saved with the capitalized password.
C17_NormalizedSentAndSaved ==
    \A i \in Creds :
        LET fmt == validate_password_format(combos[i])
        IN fmt.is_valid =>
              /\ hist[i].sent_password \in {<<>>, fmt.password}
              /\ hist[i].saved_password \in {<<>>, fmt.password}
              /\ hist[i].hit > 0 /\ fmt.password # combos[i] =>
                    /\ hist[i].hit = 1
                    /\ hist[i].saved_password = fmt.password
                    /\ hist[i].sent_password = fmt.password

\* C18: the step that takes a successful login marked banned ends the
\* credential with its one hit tally and one ban tally, calls save_result,
\* increments hits and bans by one each and nothing else, and leaves the
\* cancellation flag, the process and the futures of the other credentials
\* as they are; handle_ban is not entered.
C18_BannedAccountIsHit ==
    [][\A i \in Creds :
          hist'[i].ban - hist'[i].banned > hist[i].ban - hist[i].banned =>
             /\ hist'[i].returned
             /\ hist'[i].hit = 1 /\ hist'[i].ban = 1 /\ hist'[i].fail = 0
             /\ hist'[i].banned = 0
             /\ hist'[i].saves = 1
             /\ counter' = [counter EXCEPT !.hits = @ + 1, !.bans = @ + 1]
             /\ UNCHANGED <<stop_event, exited, ban_seen>>
             /\ \A w \in Workers : pc'[w] = "ban" => pc[w] = "ban"
             /\ \A j \in Creds : j # i => futures'[j] = futures[j]]_vars

RECURSIVE calls_of(_, _)
\* increment calls made with one result type for the first n credentials
calls_of(result_type, n) ==
    IF n = 0 THEN 0 ELSE hist[n][result_type] + calls_of(result_type, n - 1)

\* C19: a step changes at most one counter, and that by plus one; and
\* whenever no thread is inside an increment call every counter equals the
\* number of increment calls made with its result type.
C19_NoLostIncrement ==
    [][/\ counter' # counter =>
             \E result_type \in ResultTypes : counter' = increment(counter, result_type)
       /\ (\A w \in Workers : pc'[w] = "idle") =>
             \A result_type \in ResultTypes :
                 counter'[attribute(result_type)] = calls_of(result_type, Len(combos))']_vars

\* one increment of hits is done, a thread holds the lock for a second one
\* and another thread waits for the lock with a third
C19_Witness ==
    \E w, v \in Workers :
        /\ pc[w] = "locked" /\ pc[v] = "increment"
        /\ local[w].result_type = "hit" /\ local[v].result_type = "hit"
        /\ counter.hits = 1 /\ local[w].loaded = 1

\* C20: the credentials in progress (check_account was called and has not
\* returned) are never more than thread_count, check_account is called at
\* most once for a credential, and no credential is in the hands of two
\* threads, so that its attempts follow one another.
C20_PoolBoundOneCallEach ==
    /\ Cardinality({i \in Creds : hist[i].started /\ ~hist[i].returned}) <= thread_count
    /\ \A i \in Creds :
          /\ hist[i].invoked <= 1
          /\ Cardinality({w \in Workers : cur[w] = i}) <= 1
          /\ futures[i] = "running" <=>
                 /\ hist[i].started /\ ~hist[i].returned
                 /\ \E w \in Workers : cur[w] = i /\ pc[w] # "idle"

\* the pool is full: its one thread is at the second attempt of a
\* credential while the next credential waits in the queue
C20_Witness ==
    /\ thread_count = 1
    /\ \E i, j \in Creds :
          /\ futures[i] = "running" /\ hist[i].attempts = 2 /\ hist[i].invoked = 1
          /\ futures[j] = "pending" /\ hist[j].invoked = 0

\* C21: the cancellation flag is set by the signal handler only, in a step
\* that no worker takes part in; the process is ended only by a worker that
\* is in handle_ban, which a worker enters only with an error text that holds
\* one of check_account's ban keys; a step that tallies an invalid, fail or
\* retry outcome leaves flag and process as they are; and a run that was
\* neither interrupted nor banned reports its statistics with every credential
\* of the batch returned and tallied.
C21_LocalFailuresStayLocal ==
    [][/\ stop_event' # stop_event => UNCHANGED <<counter, pc, futures, exited>>
       /\ (~exited /\ exited') => \E w \in Workers : pc[w] = "ban"
       /\ \A w \in Workers :
             pc[w] # "ban" /\ pc'[w] = "ban" =>
                any_key_in(IF check_info THEN CHECK_LOGIN_BAN_KEYS
                           ELSE CHECK_VALIDATE_BAN_KEYS, hist'[cur[w]].reason)
       /\ (\E i \in Creds : \/ hist'[i].invalid > hist[i].invalid
                             \/ hist'[i].fail > hist[i].fail
                             \/ hist'[i].retry > hist[i].retry)
             => /\ UNCHANGED <<stop_event, exited>>
                /\ \A w \in Workers : pc'[w] = "ban" => pc[w] = "ban"
       /\ reported' /\ ~stop_event' /\ ~exited' =>
             \A i \in Creds : hist'[i].returned /\ Tallied(hist'[i])]_vars

\* a run in which one credential was rejected for its format and the other
\* went through a transient fault and a refusal by the service ended with
\* both tallied, the flag unset and the process alive
C21_Witness ==
    /\ reported /\ ~stop_event /\ ~exited
    /\ \E i, j \in Creds :
          /\ hist[i].invalid = 1 /\ hist[i].returned
          /\ hist[j].retry = 1 /\ hist[j].fail = 1 /\ hist[j].returned
          /\ hist[j].auth_failure # <<>>

RECURSIVE CredentialsOf(_)
\* the credentials the specification expects of a sequence of lines
CredentialsOf(lines) ==
    IF lines = <<>> THEN <<>>
    ELSE LET line == lines[Len(lines)]
             colons == {j \in 1..Len(line) : line[j] = ":"}
             k == CHOOSE j \in colons : \A m \in colons : j <= m
             before == CredentialsOf(SubSeq(lines, 1, Len(lines) - 1))
         IN IF colons = {} THEN before
            ELSE Append(before, <<strip(SubSeq(line, 1, k - 1)),
                                  strip(SubSeq(line, k + 1, Len(line)))>>)

\* C22: what load_combo_file has collected from the lines it has read is one
\* credential for each of those lines that holds ':', in the order of the
\* lines: the stripped text before the first ':' and the stripped text after
\* it; a line without ':' adds nothing.
C22_OneCredentialPerSeparatorLine ==
    file.combos = CredentialsOf(SubSeq(file.lines, 1, file.next - 1))

\* a file of a line without ':' and a line with two was read to its end
C22_Witness ==
    /\ file.returned
    /\ file.lines = << <<"a", " ", "a">>, <<" ", ":", ":">> >>
    /\ file.combos = << << <<>>, <<":">> >> >>

\* C23: the caller of a _switch_server call raises "All servers are
\* suspended" only when the current endpoint, every static backup and every
\* fetched server failed its probe in that call, and raises nothing when the
\* current endpoint answered its probe.
C23_ExhaustedOnlyWhenAllFail ==
    \A w \in Workers :
        LET call == seen[w].switch
        IN call.called =>
              /\ call.caller.exc.msg = ErrAllSuspended =>
                    /\ call.ping[call.at[1]] # "pong"
                    /\ ExpectedEndpoint(call) = NoTarget
              /\ call.ping[call.at[1]] = "pong" => call.caller.next # "raise"

\* C24: every request of an attempt, those sent again after a failover
\* included, carries the username, the normalized password and the proxy
\* descriptor of the arguments check_account passed to the client call.
C24_RetriedCallIsSameCall ==
    \A i \in Creds : ~hist[i].strayed

\* C25: when the client call of an attempt ends on a request that raised or
\* brought an empty body and the attempt is not the last of the budget, the
\* step tallies one retry and no fail for the credential and the worker goes
\* on to the next attempt, in validate mode as in login mode.
C25_TransportFailureIsTransient ==
    [][\A w \in Workers :
          /\ pc[w] = "request" /\ pc'[w] # "request"
          /\ seen'[w].transport
          /\ local[w].retry_count < max_retries - 1
          => /\ pc'[w] = "loop"
             /\ cur'[w] = cur[w]
             /\ local'[w].retry_count = local[w].retry_count + 1
             /\ hist'[cur[w]].retry = hist[cur[w]].retry + 1
             /\ hist'[cur[w]].fail = hist[cur[w]].fail]_vars

\* C26: after an exchange whose body holds a quota or key marker together
\* with a retry key of the client, or inside a payload that reports success,
\* the worker is in handle_ban: the attempt was classified as a ban, not
\* retried and not tallied as a hit.
C26_QuotaMarkerTakesPrecedence ==
    \A w \in Workers : seen[w].contested => pc[w] = "ban"

\* C27: the step of an attempt for which get_next_proxy returns nothing
\* sends no request, tallies one retry and nothing else, and takes the worker
\* to the next iteration; a credential that returned after max_retries calls
\* of get_next_proxy, none of which gave a proxy, had no request sent and has
\* max_retries retry tallies, one fail tally and the reason "Max retries
\* exceeded".
C27_NoProxyCountsAsRetry ==
    [][\A w \in Workers :
          LET i == cur[w]
          IN /\ (/\ pc[w] = "loop"
                 /\ hist'[i].proxy_calls = hist[i].proxy_calls + 1
                 /\ local'[w].proxy_data = NoProxy)
                => /\ pc'[w] = "loop" /\ cur'[w] = i
                   /\ local'[w].retry_count = local[w].retry_count + 1
                   /\ counter' = [counter EXCEPT !.retries = @ + 1]
                   /\ hist'[i].retry = hist[i].retry + 1
                   /\ hist'[i].request = hist[i].request
                   /\ hist'[i].validate_sent = hist[i].validate_sent
                   /\ hist'[i].login_sent = hist[i].login_sent
                   /\ ~hist'[i].returned
             /\ (/\ pc[w] = "loop"
                 /\ hist'[i].returned
                 /\ hist[i].proxy_calls = max_retries
                 /\ ~hist[i].proxy)
                => /\ ~hist'[i].request
                   /\ hist'[i].attempts = max_retries
                   /\ hist'[i].retry = max_retries
                   /\ hist'[i].fail = 1 /\ hist'[i].hit = 0
                   /\ hist'[i].reason = ReasonMaxRetries]_vars

\* a credential for which no proxy was ever available has returned
C27_Witness ==
    \E i \in Creds :
        /\ hist[i].returned
        /\ hist[i].proxy_calls = max_retries /\ ~hist[i].proxy /\ ~hist[i].request
        /\ hist[i].retry = max_retries /\ hist[i].fail = 1
        /\ hist[i].reason = ReasonMaxRetries
        /\ counter.retries = max_retries /\ counter.fails = 1

\* C28: a credential has had as many calls of get_next_proxy as attempts,
\* and no attempt of it got a proxy that an earlier attempt of it had.
C28_FreshProxyEachAttempt ==
    \A i \in Creds :
        /\ hist[i].proxy_calls = hist[i].attempts
        /\ ~hist[i].reused

\* C29: no two threads are inside _switch_server at the same time.
C29_SwitchUnderLock ==
    Cardinality({w \in Workers : pc[w] = "switch"}) <= 1

\* C30: the active endpoint is the primary, a static backup or a server that
\* some call fetched; and when no call is running and some call has returned
\* True, it is a server that answered a probe of one of the calls.
C30_ConcurrentSwitchesEndHealthy ==
    /\ \/ base_url = PRIMARY
       \/ InBackups(base_url)
       \/ \E w \in Workers : base_url \in seen[w].fetched
    /\ (/\ \A w \in Workers : pc[w] = "idle"
        /\ \E w \in Workers : seen[w].switched)
       => \E w \in Workers : base_url \in seen[w].healthy

\* C31: at most one worker ever executes the lazy load of the proxy list.
C31_OneLoaderOfProxyList ==
    Cardinality(proxy_list.loaders) <= 1

\* C32: after a _switch_server call that returned True, the active endpoint
\* is the server the call found healthy and is not the endpoint the call
\* started at, whether or not the config file could be rewritten.
C32_SwitchedMeansMoved ==
    \A w \in Workers :
        (seen[w].switch.called /\ seen[w].switch.switched)
        => /\ seen[w].switch.base_url = seen[w].switch.target
           /\ seen[w].switch.ping[seen[w].switch.base_url] = "pong"
           /\ seen[w].switch.base_url # seen[w].switch.at[1]

C34_RetryLoopEndsInResponseOrRequestException ==
    \A w \in Workers :
        /\ seen[w].request.requests <= MAX_REQUEST_RETRIES
        /\ seen[w].request.next = "return"
           => /\ seen[w].request.x.kind = "response"
              /\ Body(seen[w].request.x.body).raw # <<>>
              /\ ~IsSuspended(seen[w].request.x)
        /\ seen[w].request.next = "raise"
           => seen[w].request.exc.type = "RequestException"

\* C35: a credential for which save_result raised inside an attempt, after
\* a hit or a fail had been counted, has had no attempt begun and no request
\* sent after that, and has one increment of hits and fails together.
C35_SinkFailureEndsCredential ==
    \A i \in Creds :
        hist[i].sink_failed
        => /\ ~hist[i].late
           /\ hist[i].hit + hist[i].fail = 1

\* C36: when the statistics of a run are printed and the run had no
\* interrupt and no attempt classified as a ban, hits, fails and invalid
\* add up to the number of the loaded credentials, and every credential
\* has one increment of the three counters.
C36_TerminalCountersAddUp ==
    (reported /\ ~exited /\ ~stop_event /\ ~ban_seen)
    => /\ counter.hits + counter.fails + counter.invalid = Len(combos)
       /\ \A i \in Creds : hist[i].hit + hist[i].fail + hist[i].invalid = 1

\* C37: the password check_account goes on with after its format check
\* passes the format check again and comes out of it unchanged.
C37_NormalizationIdempotent ==
    \A w \in Workers :
        pc[w] = "loop"
        => /\ validate_password_format(local[w].password).is_valid
           /\ validate_password_format(local[w].password).password
                  = local[w].password

\* C38: a _test_server call returns True exactly when the request brought a
\* response whose text does not hold the suspended marker and is a JSON
\* object with status "ok" and message "pong".
C38_HealthyIffPong ==
    \A w \in Workers :
        local[w].probe.ping # "none"
        => (local[w].probe.healthy
            <=> /\ Ping(local[w].probe.ping).kind = "response"
                /\ ~Contains(Ping(local[w].probe.ping).raw, SuspendedMarker)
                /\ Ping(local[w].probe.ping).parsed
                /\ "status" \in DOMAIN Ping(local[w].probe.ping).json
                /\ "message" \in DOMAIN Ping(local[w].probe.ping).json
                /\ Ping(local[w].probe.ping).json.status = <<"ok">>
                /\ Ping(local[w].probe.ping).json.message = <<"pong">>)

\* a probe found a server healthy, and a later probe got the pong object
\* with the suspended text in it and found the server unhealthy
C38_Witness ==
    \E w \in Workers :
        /\ local[w].probe.ping = "pong_with_notice"
        /\ ~local[w].probe.healthy
        /\ used.calls > 1

\* the position of the first line of the file that is this line when
\* stripped
FirstOccurrence(line) ==
    CHOOSE k \in 1..Len(file.lines) :
        /\ strip(file.lines[k]) = line
        /\ \A j \in 1..(k - 1) : strip(file.lines[j]) # line

\* C39: the written lines are the distinct non-empty lines of the input,
\* each once, in the order of their first occurrence in the input.
C39_DistinctLinesInInputOrder ==
    (file.stage = "written")
    => /\ {file.output[k] : k \in 1..Len(file.output)}
              = {strip(file.lines[k]) : k \in 1..Len(file.lines)} \ {<<>>}
       /\ \A j, k \in 1..Len(file.output) :
             j < k => /\ file.output[j] # file.output[k]
                      /\ FirstOccurrence(file.output[j])
                             < FirstOccurrence(file.output[k])

====
